---- MODULE Spec2Model ----
(***************************************************************************)
(* Model of the pixel-level image analysis engine of designchameleon       *)
(* (src/unnamed/part_005): analyzeColors, analyzeSpatial, analyzeGeometry, *)
(* analyzeEffects, analyzeStyle and the analyzeImage pipeline.             *)
(*                                                                         *)
(* JavaScript numbers are modelled as exact rationals [n, d] with d >= 0;  *)
(* d = 0 encodes the IEEE special values the code can produce by dividing  *)
(* by zero: 1/0 = Infinity, -1/0 = -Infinity, 0/0 = NaN.  Floating-point   *)
(* rounding error is not modelled.                                         *)
(***************************************************************************)
EXTENDS Integers, Sequences, FiniteSets, TLC

VARIABLES
    imageData,  \* the bitmap: [width, height, data] (row-major RGBA bytes)
    pc,         \* position in the run
    colors,     \* ColorAnalysis returned by analyzeColors, or NoResult
    spatial,    \* SpatialAnalysis returned by analyzeSpatial, or NoResult
    geometry,   \* GeometryAnalysis returned by analyzeGeometry, or NoResult
    effects,    \* EffectsAnalysis returned by analyzeEffects, or NoResult
    style,      \* StyleAnalysis returned by analyzeStyle, or NoResult
    locals,     \* local variables of the loop being executed
    previous    \* the result of the previous run on the same bitmap

vars == <<imageData, pc, colors, spatial, geometry, effects, style, locals, previous>>

NoResult == [none |-> TRUE]

-----------------------------------------------------------------------------
(* JavaScript number arithmetic *)

Abs(x) == IF x < 0 THEN -x ELSE x

Sign(x) == IF x > 0 THEN 1 ELSE IF x < 0 THEN -1 ELSE 0

Min2(a, b) == IF a <= b THEN a ELSE b

Max2(a, b) == IF a >= b THEN a ELSE b

RECURSIVE GCD(_, _)
GCD(a, b) == IF b = 0 THEN a ELSE GCD(b, a % b)

\* the number n/d (IEEE: x/0 is +-Infinity, 0/0 is NaN)
Rat(n, d) ==
    IF d = 0 THEN [n |-> Sign(n), d |-> 0]
    ELSE IF d = 1 THEN [n |-> n, d |-> 1]
    ELSE LET g == GCD(Abs(n), Abs(d))
             s == Sign(d)
         IN  [n |-> s * (n \div g), d |-> s * (d \div g)]

Num(n) == [n |-> n, d |-> 1]

NaN == [n |-> 0, d |-> 0]

PosInf == [n |-> 1, d |-> 0]

NegInf == [n |-> -1, d |-> 0]

IsNaN(a) == a.d = 0 /\ a.n = 0

IsFinite(a) == a.d > 0

RNeg(a) == [n |-> -a.n, d |-> a.d]

RAdd(a, b) ==
    IF a.d = 0 /\ b.d = 0
    THEN (IF a.n = b.n THEN a ELSE NaN)
    ELSE IF a.d = 0 THEN a
    ELSE IF b.d = 0 THEN b
    ELSE IF a.d = 1 /\ b.d = 1 THEN [n |-> a.n + b.n, d |-> 1]
    ELSE LET g == GCD(a.d, b.d)
         IN  Rat(a.n * (b.d \div g) + b.n * (a.d \div g), (a.d \div g) * b.d)

RSub(a, b) == RAdd(a, RNeg(b))

RAbs(a) == [n |-> Abs(a.n), d |-> a.d]

RMul(a, b) ==
    IF a.d = 0 \/ b.d = 0
    THEN Rat(a.n * b.n, 0)
    ELSE IF a.d = 1 /\ b.d = 1 THEN [n |-> a.n * b.n, d |-> 1]
    ELSE LET g1 == GCD(Abs(a.n), b.d)
             g2 == GCD(Abs(b.n), a.d)
             h1 == IF g1 = 0 THEN 1 ELSE g1
             h2 == IF g2 = 0 THEN 1 ELSE g2
         IN  Rat((a.n \div h1) * (b.n \div h2), (a.d \div h2) * (b.d \div h1))

\* IEEE division: finite/0 is +-Infinity, 0/0 and Infinity/Infinity are NaN
RDiv(a, b) ==
    IF IsNaN(a) \/ IsNaN(b) THEN NaN
    ELSE IF b.d = 0 THEN (IF a.d = 0 THEN NaN ELSE Num(0))
    ELSE IF b.n = 0 THEN Rat(a.n, 0)
    ELSE RMul(a, [n |-> Sign(b.n) * b.d, d |-> Abs(b.n)])

\* n1/d1 < n2/d2 for d1, d2 > 0, by comparing the integer parts and then the
\* reciprocals of the fractional parts
RECURSIVE FracLt(_, _, _, _)
FracLt(n1, d1, n2, d2) ==
    IF n1 \div d1 # n2 \div d2 THEN n1 \div d1 < n2 \div d2
    ELSE IF n2 % d2 = 0 THEN FALSE
    ELSE IF n1 % d1 = 0 THEN TRUE
    ELSE FracLt(d2, n2 % d2, d1, n1 % d1)

\* comparisons: every comparison with NaN is false
RLt(a, b) ==
    /\ ~IsNaN(a)
    /\ ~IsNaN(b)
    /\ IF a.d = 0 /\ b.d = 0 THEN a.n < b.n
       ELSE IF a.d = 0 THEN a.n < 0
       ELSE IF b.d = 0 THEN b.n > 0
       ELSE FracLt(a.n, a.d, b.n, b.d)

RGt(a, b) == RLt(b, a)

REq(a, b) == ~IsNaN(a) /\ ~IsNaN(b) /\ a = b

RLe(a, b) == RLt(a, b) \/ REq(a, b)

RGe(a, b) == RLe(b, a)

\* Math.min / Math.max of two numbers: NaN if either is NaN
MathMin(a, b) == IF IsNaN(a) \/ IsNaN(b) THEN NaN ELSE IF RLt(b, a) THEN b ELSE a

MathMax(a, b) == IF IsNaN(a) \/ IsNaN(b) THEN NaN ELSE IF RGt(b, a) THEN b ELSE a

\* Math.round(n/d) for integers n, d with d # 0: nearest integer, halves up
MathRound(n, d) ==
    LET nn == IF d < 0 THEN -n ELSE n
        dd == Abs(d)
    IN  (2 * nn + dd) \div (2 * dd)

\* Math.floor(n/d) for integers n and d > 0
MathFloor(n, d) == n \div d

\* s[lo] + ... + s[hi]
RECURSIVE SumRange(_, _, _)
SumRange(s, lo, hi) ==
    IF lo > hi THEN 0
    ELSE IF lo = hi THEN s[lo]
    ELSE LET mid == (lo + hi) \div 2
         IN  SumRange(s, lo, mid) + SumRange(s, mid + 1, hi)

\* s[1] + ... + s[k]
SumUpTo(s, k) == SumRange(s, 1, k)

SumSeq(s) == SumUpTo(s, Len(s))

\* reduce((sum, c) => sum + c, 0) over a sequence of numbers
RECURSIVE RSumSeq(_)
RSumSeq(s) == IF s = <<>> THEN Num(0) ELSE RAdd(RSumSeq(SubSeq(s, 1, Len(s) - 1)), s[Len(s)])

\* Array.prototype.slice(0, k)
Slice(s, k) == SubSeq(s, 1, Min2(k, Len(s)))

\* Array.prototype.sort((a, b) => b.key - a.key) over a sequence of
\* [key, val] records with a JavaScript number as key: a stable sort (insertion
\* sort) in descending key order; a comparator result that is not > 0 (NaN
\* included) leaves the two elements in their order
RECURSIVE InsertDesc(_, _)
InsertDesc(s, e) ==
    IF s = <<>> THEN <<e>>
    ELSE IF RGt(RSub(e.key, s[Len(s)].key), Num(0))
         THEN Append(InsertDesc(SubSeq(s, 1, Len(s) - 1), e), s[Len(s)])
         ELSE Append(s, e)

RECURSIVE SortDesc(_)
SortDesc(s) ==
    IF s = <<>> THEN <<>>
    ELSE InsertDesc(SortDesc(SubSeq(s, 1, Len(s) - 1)), s[Len(s)])

-----------------------------------------------------------------------------
(* Utility functions *)

HexDigits == <<"0", "1", "2", "3", "4", "5", "6", "7", "8", "9",
               "a", "b", "c", "d", "e", "f">>

\* Number.prototype.toString(16) of a non-negative integer, as a sequence of
\* characters
RECURSIVE toString16(_)
toString16(x) ==
    IF x < 16 THEN <<HexDigits[x + 1]>>
    ELSE toString16(x \div 16) \o <<HexDigits[(x % 16) + 1]>>

\* String.prototype.padStart(2, "0")
padStart2(s) == IF Len(s) < 2 THEN <<"0">> \o s ELSE s

rgbToHex(r, g, b) ==
    <<"#">> \o padStart2(toString16(r)) \o padStart2(toString16(g))
            \o padStart2(toString16(b))

Max3(a, b, c) == Max2(a, Max2(b, c))

Min3(a, b, c) == Min2(a, Min2(b, c))

\* rgbToHsl, given max = Math.max(r, g, b) and min = Math.min(r, g, b):
\* l = (max + min) / 2, s = d / (2 - max - min) or d / (max + min) with
\* d = max - min, and h by the largest channel, each rounded as returned
hslOf(r, g, b, max, min) ==
    IF max = min THEN [h |-> 0, s |-> 0, l |-> MathRound(100 * (max + min), 510)]
    ELSE [h |-> IF max = r
                THEN MathRound(60 * (g - b) + (IF g < b THEN 360 * (max - min) ELSE 0),
                               max - min)
                ELSE IF max = g
                THEN MathRound(60 * (b - r) + 120 * (max - min), max - min)
                ELSE MathRound(60 * (r - g) + 240 * (max - min), max - min),
          s |-> IF max + min > 255
                THEN MathRound(100 * (max - min), 510 - (max + min))
                ELSE MathRound(100 * (max - min), max + min),
          l |-> MathRound(100 * (max + min), 510)]

\* rgbToHsl on integer channels; the channels reaching it are bytes (0..255)
\* or quantized values (multiples of 16 up to 256), for which no denominator
\* below is zero
rgbToHsl(r, g, b) == hslOf(r, g, b, Max3(r, g, b), Min3(r, g, b))

hueDistance(h1, h2) ==
    LET diff == Abs(h1 - h2)
    IN  Min2(diff, 360 - diff)

\* getRelativeLuminance's per-channel term, (c/255 <= 0.03928 ? c/255/12.92 :
\* ((c/255 + 0.055)/1.055)^2.4), in units of 1/10000, tabulated for the
\* quantized channel values 0, 16, ..., 256 (the only ones the code passes)
LinearChannel ==
    <<0, 52, 144, 296, 513, 802, 1170, 1620, 2159, 2789, 3515, 4342, 5271,
      6308, 7454, 8714, 10089>>

\* relative luminance in units of 1/10000
getRelativeLuminance(r, g, b) ==
    LET rs == LinearChannel[(r \div 16) + 1]
        gs == LinearChannel[(g \div 16) + 1]
        bs == LinearChannel[(b \div 16) + 1]
    IN  MathRound(2126 * rs + 7152 * gs + 722 * bs, 10000)

-----------------------------------------------------------------------------
(* Color analysis *)

\* const step = 4: sample every 4th pixel
step == 4

\* data[i] of the pixel that starts at byte index i (0-based)
PixelAt(data, i) ==
    [r |-> data[i + 1], g |-> data[i + 2], b |-> data[i + 3], a |-> data[i + 4]]

skipNothing(a) == FALSE

\* if (a < 128) continue
skipTransparent(a) == a < 128

\* Math.round(v / 16) * 16
quantize(v) == MathRound(v, 16) * 16

\* colorMap.get(key) ... existing.count++ / colorMap.set(key, {..., count: 1});
\* the Map is the sequence of its values in insertion order
colorMapAdd(m, qr, qg, qb) ==
    IF \E k \in 1..Len(m) : m[k].r = qr /\ m[k].g = qg /\ m[k].b = qb
    THEN [k \in 1..Len(m) |->
            IF m[k].r = qr /\ m[k].g = qg /\ m[k].b = qb
            THEN [m[k] EXCEPT !.count = @ + 1] ELSE m[k]]
    ELSE Append(m, [r |-> qr, g |-> qg, b |-> qb, count |-> 1])

colorAccInit ==
    [colorMap |-> <<>>, totalHue |-> 0, totalSaturation |-> 0,
     totalLightness |-> 0, hueCount |-> 0, dark |-> 0, mid |-> 0, light |-> 0]

\* the loop body past the alpha test: the quantized colour is counted and
\* the hsl of the pixel is added to the totals
colorCount(hsl, qr, qg, qb, acc) ==
    [colorMap |-> colorMapAdd(acc.colorMap, qr, qg, qb),
     totalHue |-> acc.totalHue + (IF hsl.s > 10 THEN hsl.h ELSE 0),
     hueCount |-> acc.hueCount + (IF hsl.s > 10 THEN 1 ELSE 0),
     totalSaturation |-> acc.totalSaturation + hsl.s,
     totalLightness |-> acc.totalLightness + hsl.l,
     dark |-> acc.dark + (IF hsl.l < 30 THEN 1 ELSE 0),
     light |-> acc.light + (IF hsl.l >= 30 /\ hsl.l > 70 THEN 1 ELSE 0),
     mid |-> acc.mid + (IF hsl.l >= 30 /\ hsl.l <= 70 THEN 1 ELSE 0)]

\* one iteration of the sampling loop body on the pixel at byte index i
colorSample(data, i, acc) ==
    LET px == PixelAt(data, i)
    IN  IF skipTransparent(px.a) THEN acc
        ELSE colorCount(rgbToHsl(px.r, px.g, px.b), quantize(px.r), quantize(px.g),
                        quantize(px.b), acc)

\* two consecutive runs of iterations combined: the colours of the first keep
\* their places in the Map and gain the counts of the second, the colours new
\* in the second follow in their order, and the totals add up
colorAccJoin(a, b) ==
    LET same(e, f) == e.r = f.r /\ e.g = f.g /\ e.b = f.b
        isNew(f) == ~(\E k \in 1..Len(a.colorMap) : same(a.colorMap[k], f))
        gained(e) == SumUpTo([k \in 1..Len(b.colorMap) |->
                                 IF same(e, b.colorMap[k]) THEN b.colorMap[k].count ELSE 0],
                             Len(b.colorMap))
    IN  [colorMap |-> [k \in 1..Len(a.colorMap) |->
                          [a.colorMap[k] EXCEPT !.count = @ + gained(a.colorMap[k])]]
                      \o SelectSeq(b.colorMap, isNew),
         totalHue |-> a.totalHue + b.totalHue,
         hueCount |-> a.hueCount + b.hueCount,
         totalSaturation |-> a.totalSaturation + b.totalSaturation,
         totalLightness |-> a.totalLightness + b.totalLightness,
         dark |-> a.dark + b.dark,
         mid |-> a.mid + b.mid,
         light |-> a.light + b.light]

\* for (let i = 0; i < data.length; i += 4 * step): what iterations lo..hi of
\* the loop accumulate, iteration k being on byte index 4 * step * k
RECURSIVE colorLoop(_, _, _)
colorLoop(data, lo, hi) ==
    IF lo > hi THEN colorAccInit
    ELSE IF lo = hi THEN colorSample(data, 4 * step * lo, colorAccInit)
    ELSE LET mid == (lo + hi) \div 2
         IN  colorAccJoin(colorLoop(data, lo, mid), colorLoop(data, mid + 1, hi))

\* const sampledPixels = Math.floor(totalPixels / step)
sampledPixelsOf(totalPixels) == MathFloor(totalPixels, step)

\* sortedColors.map(...): quantized colour c as a ColorInfo
toColorInfo(c, sampledPixels) ==
    [hex |-> rgbToHex(c.r, c.g, c.b),
     rgb |-> [r |-> c.r, g |-> c.g, b |-> c.b],
     hsl |-> rgbToHsl(c.r, c.g, c.b),
     percentage |-> RMul(RDiv(Num(c.count), Num(sampledPixels)), Num(100)),
     count |-> c.count]

\* a sequence with each element paired with its sort key
Unkeyed(s) == [k \in 1..Len(s) |-> s[k].val]

\* the hardcoded fallback roles of extractPalette
FallbackPrimary == <<"#", "6", "3", "6", "6", "f", "1">>

FallbackSecondary == <<"#", "a", "8", "5", "5", "f", "7">>

FallbackAccent == <<"#", "1", "0", "b", "9", "8", "1">>

FallbackBackground == <<"#", "f", "f", "f", "f", "f", "f">>

Black == <<"#", "0", "0", "0", "0", "0", "0">>

White == <<"#", "f", "f", "f", "f", "f", "f">>

\* background: the first colour with hsl.s < 20 or percentage > 30, else the
\* first colour, else the fallback
backgroundOf(colors_) ==
    LET isBg(c) == c.hsl.s < 20 \/ RGt(c.percentage, Num(30))
        bgCandidates == SelectSeq(colors_, isBg)
    IN  IF bgCandidates # <<>> THEN bgCandidates[1].hex
        ELSE IF colors_ # <<>> THEN colors_[1].hex
        ELSE FallbackBackground

\* colors.find((c) => c.hex === background)?.hsl.l || 50: a lightness of 0 is
\* falsy too
bgLightnessOf(colors_, background) ==
    LET isBackground(c) == c.hex = background
        found == SelectSeq(colors_, isBackground)
    IN  IF found # <<>> /\ found[1].hsl.l # 0 THEN found[1].hsl.l ELSE 50

\* foreground: the first colour whose lightness is more than 40 away from the
\* background's, else black on a light background and white on a dark one
foregroundOf(colors_, bgLightness) ==
    LET isFg(c) == Abs(c.hsl.l - bgLightness) > 40
        foregroundCandidates == SelectSeq(colors_, isFg)
    IN  IF foregroundCandidates # <<>> THEN foregroundCandidates[1].hex
        ELSE IF bgLightness > 50 THEN Black ELSE White

\* the colours with hsl.s > 30 and percentage > 2, by hsl.s * percentage
\* descending
primaryCandidatesOf(colors_) ==
    LET isPrimary(c) == c.hsl.s > 30 /\ RGt(c.percentage, Num(2))
        prominent == SelectSeq(colors_, isPrimary)
    IN  Unkeyed(SortDesc([k \in 1..Len(prominent) |->
            [key |-> RMul(Num(prominent[k].hsl.s), prominent[k].percentage),
             val |-> prominent[k]]]))

secondaryOf(colors_, primary, primaryHue) ==
    LET isSecondary(c) ==
            c.hsl.s > 20 /\ hueDistance(c.hsl.h, primaryHue) > 30 /\ c.hex # primary
        secondaryCandidates == SelectSeq(colors_, isSecondary)
    IN  IF secondaryCandidates # <<>> THEN secondaryCandidates[1].hex
        ELSE FallbackSecondary

\* the accent filter without its test against the secondary colour
accentNotOnlyPrimary(colors_, primary, secondary, primaryHue) ==
    LET isAccent(c) ==
            /\ c.hsl.s > 40
            /\ c.hex # primary
            /\ hueDistance(c.hsl.h, primaryHue) > 60
        accentCandidates == SelectSeq(colors_, isAccent)
    IN  IF accentCandidates # <<>> THEN accentCandidates[1].hex
        ELSE FallbackAccent

accentOf(colors_, primary, secondary, primaryHue) ==
    LET isAccent(c) ==
            /\ c.hsl.s > 40
            /\ c.hex # primary
            /\ c.hex # secondary
            /\ hueDistance(c.hsl.h, primaryHue) > 60
        accentCandidates == SelectSeq(colors_, isAccent)
    IN  IF accentCandidates # <<>> THEN accentCandidates[1].hex
        ELSE FallbackAccent

\* the five roles, given the background and the primary candidates
paletteOf(colors_, background, primaryCandidates) ==
    LET primary ==
            IF primaryCandidates # <<>> THEN primaryCandidates[1].hex
            ELSE FallbackPrimary
        primaryHue ==
            IF primaryCandidates # <<>> THEN primaryCandidates[1].hsl.h ELSE 0
        secondary == secondaryOf(colors_, primary, primaryHue)
    IN  [primary |-> primary,
         secondary |-> secondary,
         accent |-> accentOf(colors_, primary, secondary, primaryHue),
         background |-> background,
         foreground |-> foregroundOf(colors_, bgLightnessOf(colors_, background))]

extractPalette(colors_) ==
    paletteOf(colors_, backgroundOf(colors_), primaryCandidatesOf(colors_))

\* hue distances of all pairs i < j of a sequence of hues, in loop order
hueDistancesOf(hues) ==
    LET n == Len(hues)
        pairs == {<<i, j>> \in (1..n) \X (1..n) : i < j}
    IN  {[i |-> p[1], j |-> p[2], d |-> hueDistance(hues[p[1]], hues[p[2]])] :
            p \in pairs}

detectPaletteType(colors_) ==
    LET isSaturated(c) == c.hsl.s > 20
        saturatedColors == Slice(SelectSeq(colors_, isSaturated), 5)
        hues == [k \in 1..Len(saturatedColors) |-> saturatedColors[k].hsl.h]
        hueDistances == hueDistancesOf(hues)
        maxDistance == CHOOSE m \in {e.d : e \in hueDistances} :
                           \A e \in hueDistances : e.d <= m
        total == LET RECURSIVE Sum(_)
                     Sum(S) == IF S = {} THEN 0
                               ELSE LET e == CHOOSE e \in S : TRUE
                                    IN  e.d + Sum(S \ {e})
                 IN  Sum(hueDistances)
        count == Cardinality(hueDistances)
    IN  IF Len(saturatedColors) < 2 THEN "monochromatic"
        ELSE IF maxDistance < 30 THEN "monochromatic"
        ELSE IF total < 40 * count THEN "analogous"
        ELSE IF \E e \in hueDistances : e.d > 150 /\ e.d < 210 THEN "complementary"
        ELSE IF Cardinality({e \in hueDistances : e.d > 100 /\ e.d < 140}) >= 2
             THEN "triadic"
        ELSE IF \E e \in hueDistances : e.d > 130 /\ e.d < 170
             THEN "split-complementary"
        ELSE "mixed"

\* temperatureScore from the average hue
temperatureScoreOf(avgHue) ==
    LET raw ==
            IF (RGe(avgHue, Num(0)) /\ RLe(avgHue, Num(60))) \/ RGe(avgHue, Num(300))
            THEN RAdd(Num(50),
                      RMul(IF RLe(avgHue, Num(60)) THEN avgHue
                           ELSE RSub(Num(360), avgHue), Rat(8, 10)))
            ELSE IF RGe(avgHue, Num(180)) /\ RLe(avgHue, Num(240))
            THEN RSub(Num(-50),
                      RMul(RSub(Num(30), RAbs(RSub(avgHue, Num(210)))), Rat(15, 10)))
            ELSE RMul(RSub(avgHue, Num(150)), Rat(5, 10))
    IN  MathMax(Num(-100), MathMin(Num(100), raw))

\* Math.max(...luminances) + 0.05 over Math.min(...luminances) + 0.05, the
\* luminances in units of 1/10000; Math.max() of no argument is -Infinity and
\* Math.min() is Infinity
contrastRatioOf(luminances) ==
    IF luminances = <<>> THEN RDiv(NegInf, PosInf)
    ELSE LET S == {luminances[k] : k \in 1..Len(luminances)}
             maxLum == CHOOSE m \in S : \A x \in S : x <= m
             minLum == CHOOSE m \in S : \A x \in S : x >= m
         IN  Rat(maxLum + 500, minLum + 500)

\* the 20 most frequent quantized colours as ColorInfo, most frequent first
dominantColorsOf(colorMap, sampledPixels) ==
    LET byCount == [k \in 1..Len(colorMap) |->
                       [key |-> Num(colorMap[k].count), val |-> colorMap[k]]]
        sortedColors == Slice(Unkeyed(SortDesc(byCount)), 20)
    IN  [k \in 1..Len(sortedColors) |-> toColorInfo(sortedColors[k], sampledPixels)]

\* proportions: the shares of the top three colours in their total, with the
\* defaults 60, 30, 10 for the colours that are missing
proportionsOf(top3) ==
    LET totalTop3 == RSumSeq([k \in 1..Len(top3) |-> top3[k].percentage])
        share(k, default) ==
            IF Len(top3) >= k
            THEN RMul(RDiv(top3[k].percentage, totalTop3), Num(100))
            ELSE Num(default)
    IN  [primary |-> share(1, 60), secondary |-> share(2, 30), accent |-> share(3, 10)]

temperatureOf(temperatureScore) ==
    IF RGt(temperatureScore, Num(25)) THEN "warm"
    ELSE IF RLt(temperatureScore, Num(-25)) THEN "cool"
    ELSE "neutral"

saturationOf(avgSaturation) ==
    IF RGt(avgSaturation, Num(60)) THEN "vibrant"
    ELSE IF RGt(avgSaturation, Num(40)) THEN "moderate"
    ELSE IF RGt(avgSaturation, Num(20)) THEN "muted"
    ELSE "desaturated"

contrastOf(contrastRatio) ==
    IF RGt(contrastRatio, Num(7)) THEN "high"
    ELSE IF RGt(contrastRatio, Num(3)) THEN "medium"
    ELSE "low"

\* lightnessDistribution: each count over the total of the three, times 100
lightnessDistributionOf(dark, mid, light) ==
    [dark  |-> RMul(RDiv(Num(dark), Num(dark + mid + light)), Num(100)),
     mid   |-> RMul(RDiv(Num(mid), Num(dark + mid + light)), Num(100)),
     light |-> RMul(RDiv(Num(light), Num(dark + mid + light)), Num(100))]

\* the returned ColorAnalysis, given the computed numbers
colorAnalysisOf(dominantColors, temperatureScore, avgSaturation, contrastRatio, acc) ==
    [dominantColors |-> dominantColors,
     palette |-> extractPalette(dominantColors),
     proportions |-> proportionsOf(Slice(dominantColors, 3)),
     temperature |-> temperatureOf(temperatureScore),
     temperatureScore |-> temperatureScore,
     saturation |-> saturationOf(avgSaturation),
     saturationScore |-> avgSaturation,
     contrast |-> contrastOf(contrastRatio),
     contrastRatio |-> contrastRatio,
     paletteType |-> detectPaletteType(dominantColors),
     lightnessDistribution |-> lightnessDistributionOf(acc.dark, acc.mid, acc.light)]

\* analyzeColors after its sampling loop and the sort of the colour map
colorsFromDominant(acc, dominantColors, sampledPixels) ==
    LET top5 == Slice(dominantColors, 5)
    IN  colorAnalysisOf(
            dominantColors,
            temperatureScoreOf(IF acc.hueCount > 0 THEN Rat(acc.totalHue, acc.hueCount)
                               ELSE Num(0)),
            RDiv(Num(acc.totalSaturation), Num(sampledPixels)),
            contrastRatioOf([k \in 1..Len(top5) |->
                getRelativeLuminance(top5[k].rgb.r, top5[k].rgb.g, top5[k].rgb.b)]),
            acc)

\* analyzeColors after its sampling loop
colorsFromSamples(acc, sampledPixels) ==
    colorsFromDominant(acc, dominantColorsOf(acc.colorMap, sampledPixels), sampledPixels)

analyzeColors(img) ==
    colorsFromSamples(colorLoop(img.data, 0, (Len(img.data) - 1) \div (4 * step)),
                      sampledPixelsOf(img.width * img.height))

-----------------------------------------------------------------------------
(* Style analysis *)

noClamp(x) == x

\* Math.min(100, Math.max(0, x))
clamp100(x) == MathMin(Num(100), MathMax(Num(0), x))

AsymmetricBalances ==
    {"asymmetric-left", "asymmetric-right", "asymmetric-top", "asymmetric-bottom"}

minimalismOf(colorAnalysis, spatialAnalysis, geometryAnalysis) ==
    clamp100(
        RAdd(RAdd(RMul(spatialAnalysis.whitespacePercentage, Rat(4, 10)),
                  RMul(RSub(Num(100), geometryAnalysis.edgeDensity), Rat(3, 10))),
             Num((IF geometryAnalysis.cornerStyle \in {"rounded", "soft"} THEN 20 ELSE 0)
                 + (IF colorAnalysis.paletteType = "monochromatic" THEN 20 ELSE 0))))

complexityOf(spatialAnalysis, geometryAnalysis, effectsAnalysis) ==
    clamp100(
        RAdd(RAdd(RMul(geometryAnalysis.edgeDensity, Rat(5, 10)),
                  Num(effectsAnalysis.gradients.count * 10)),
             RAdd(RMul(effectsAnalysis.shadows.score, Rat(3, 10)),
                  RMul(RSub(Num(100), spatialAnalysis.whitespacePercentage), Rat(2, 10)))))

modernnessOf(colorAnalysis, spatialAnalysis, geometryAnalysis, effectsAnalysis) ==
    clamp100(Num(
        (IF geometryAnalysis.cornerStyle \in {"rounded", "pill"} THEN 30 ELSE 10)
        + (IF colorAnalysis.saturation = "vibrant" THEN 25
           ELSE IF colorAnalysis.saturation = "moderate" THEN 15 ELSE 5)
        + (IF effectsAnalysis.gradients.detected THEN 20 ELSE 0)
        + (IF effectsAnalysis.hasGlassmorphism THEN 15 ELSE 0)
        + (IF spatialAnalysis.balance \in {"symmetric", "centered"} THEN 10 ELSE 5)))

eleganceOf(minimalism, colorAnalysis, geometryAnalysis, effectsAnalysis) ==
    clamp100(
        RAdd(RMul(minimalism, Rat(3, 10)),
             Num((IF colorAnalysis.saturation \in {"muted", "moderate"} THEN 25 ELSE 10)
                 + (IF effectsAnalysis.shadows.intensity = "subtle" THEN 20 ELSE 10)
                 + (IF geometryAnalysis.cornerStyle \in {"soft", "rounded"} THEN 15 ELSE 5))))

boldnessOf(complexity, colorAnalysis, effectsAnalysis) ==
    clamp100(
        RAdd(Num((IF colorAnalysis.saturation = "vibrant" THEN 30 ELSE 10)
                 + (IF colorAnalysis.contrast = "high" THEN 25 ELSE 10)
                 + (IF effectsAnalysis.shadows.intensity = "dramatic" THEN 20 ELSE 5)),
             RMul(complexity, Rat(2, 10))))

\* the seven accumulated industry scores, as Object.entries(industryScores)
\* lists them: in the insertion order of the object literal
industryScoresOf(colorAnalysis, spatialAnalysis, effectsAnalysis, minimalism, complexity, modernness, boldness) ==
    LET If(c, v) == IF c THEN v ELSE 0
        dark  == colorAnalysis.lightnessDistribution.dark
        light == colorAnalysis.lightnessDistribution.light
    IN  << [val |-> "tech",
            key |-> Num(If(RGt(dark, Num(40)), 20)
                        + If(effectsAnalysis.gradients.detected, 15)
                        + If(colorAnalysis.paletteType # "monochromatic", 10)
                        + If(RGt(modernness, Num(60)), 15))],
           [val |-> "finance",
            key |-> Num(If(colorAnalysis.temperature = "cool", 20)
                        + If(spatialAnalysis.balance = "symmetric", 15)
                        + If(RGt(minimalism, Num(50)), 10))],
           [val |-> "creative",
            key |-> Num(If(colorAnalysis.saturation = "vibrant", 25)
                        + If(spatialAnalysis.balance \in AsymmetricBalances, 15)
                        + If(RGt(complexity, Num(60)), 10))],
           [val |-> "healthcare",
            key |-> Num(If(RGt(light, Num(50)), 20)
                        + If(RGt(minimalism, Num(60)), 15)
                        + If(colorAnalysis.temperature = "cool", 10))],
           [val |-> "ecommerce",
            key |-> Num(If(colorAnalysis.temperature = "warm", 15)
                        + If(spatialAnalysis.density = "dense", 15)
                        + If(colorAnalysis.contrast = "high", 10))],
           [val |-> "media",
            key |-> Num(If(RGt(boldness, Num(60)), 20)
                        + If(colorAnalysis.contrast = "high", 15))],
           [val |-> "general", key |-> Num(50)] >>

sortAscending(scores) ==
    LET sorted == SortDesc(scores)
    IN  [k \in 1..Len(sorted) |-> sorted[Len(sorted) + 1 - k]]

\* Object.entries(industryScores).sort(([, a], [, b]) => b - a)
sortIndustries(scores) == SortDesc(scores)

\* the tag rules with the lightness thresholds at 40 instead of 60
aestheticTagsAt40(colorAnalysis, spatialAnalysis, geometryAnalysis, effectsAnalysis, minimalism, modernness, elegance, boldness) ==
    LET Tag(c, t) == IF c THEN <<t>> ELSE <<>>
    IN  Tag(RGt(minimalism, Num(70)), "Minimalist")
        \o Tag(RGt(boldness, Num(70)), "Bold")
        \o Tag(RGt(elegance, Num(70)), "Elegant")
        \o Tag(RGt(modernness, Num(70)), "Modern")
        \o Tag(effectsAnalysis.hasGlassmorphism, "Glassmorphism")
        \o Tag(effectsAnalysis.gradients.detected, "Gradient-rich")
        \o Tag(RGt(colorAnalysis.lightnessDistribution.dark, Num(40)), "Dark Mode")
        \o Tag(RGt(colorAnalysis.lightnessDistribution.light, Num(40)), "Light Mode")
        \o Tag(colorAnalysis.temperature = "warm", "Warm")
        \o Tag(colorAnalysis.temperature = "cool", "Cool")
        \o Tag(colorAnalysis.saturation = "vibrant", "Vibrant")
        \o Tag(colorAnalysis.saturation = "muted", "Muted")
        \o Tag(effectsAnalysis.depth = "flat", "Flat Design")
        \o Tag(effectsAnalysis.depth = "neumorphic", "Neumorphic")
        \o Tag(geometryAnalysis.cornerStyle = "pill", "Pill-shaped")
        \o Tag(spatialAnalysis.density = "spacious", "Airy")

\* the tags whose rule holds, in the order the rules are checked
aestheticTagsOf(colorAnalysis, spatialAnalysis, geometryAnalysis, effectsAnalysis, minimalism, modernness, elegance, boldness) ==
    LET Tag(c, t) == IF c THEN <<t>> ELSE <<>>
    IN  Tag(RGt(minimalism, Num(70)), "Minimalist")
        \o Tag(RGt(boldness, Num(70)), "Bold")
        \o Tag(RGt(elegance, Num(70)), "Elegant")
        \o Tag(RGt(modernness, Num(70)), "Modern")
        \o Tag(effectsAnalysis.hasGlassmorphism, "Glassmorphism")
        \o Tag(effectsAnalysis.gradients.detected, "Gradient-rich")
        \o Tag(RGt(colorAnalysis.lightnessDistribution.dark, Num(60)), "Dark Mode")
        \o Tag(RGt(colorAnalysis.lightnessDistribution.light, Num(60)), "Light Mode")
        \o Tag(colorAnalysis.temperature = "warm", "Warm")
        \o Tag(colorAnalysis.temperature = "cool", "Cool")
        \o Tag(colorAnalysis.saturation = "vibrant", "Vibrant")
        \o Tag(colorAnalysis.saturation = "muted", "Muted")
        \o Tag(effectsAnalysis.depth = "flat", "Flat Design")
        \o Tag(effectsAnalysis.depth = "neumorphic", "Neumorphic")
        \o Tag(geometryAnalysis.cornerStyle = "pill", "Pill-shaped")
        \o Tag(spatialAnalysis.density = "spacious", "Airy")

\* the era chain with the classic test ahead of the futuristic one
eraClassicFirst(minimalism, geometryAnalysis, effectsAnalysis) ==
    IF effectsAnalysis.depth = "flat" /\ RGt(minimalism, Num(60)) THEN "modern"
    ELSE IF effectsAnalysis.shadows.intensity = "dramatic"
            /\ geometryAnalysis.cornerStyle = "sharp"
         THEN "classic"
    ELSE IF effectsAnalysis.hasGlassmorphism \/ geometryAnalysis.cornerStyle = "pill"
         THEN "futuristic"
    ELSE "modern"

\* all the tags, without the cut to 8
sliceNone(tags) == tags

\* aestheticTags.slice(0, 8)
sliceTags(tags) == Slice(tags, 8)

eraOf(minimalism, geometryAnalysis, effectsAnalysis) ==
    IF effectsAnalysis.depth = "flat" /\ RGt(minimalism, Num(60)) THEN "modern"
    ELSE IF effectsAnalysis.hasGlassmorphism \/ geometryAnalysis.cornerStyle = "pill"
         THEN "futuristic"
    ELSE IF effectsAnalysis.shadows.intensity = "dramatic"
            /\ geometryAnalysis.cornerStyle = "sharp"
         THEN "classic"
    ELSE "modern"

\* the returned StyleAnalysis, given the five scores
styleFromScores(colorAnalysis, spatialAnalysis, geometryAnalysis, effectsAnalysis, minimalism, complexity, modernness, elegance, boldness) ==
    LET topIndustry ==
            sortIndustries(industryScoresOf(colorAnalysis, spatialAnalysis,
                effectsAnalysis, minimalism, complexity, modernness, boldness))[1]
    IN  [minimalism |-> minimalism,
         complexity |-> complexity,
         modernness |-> modernness,
         elegance |-> elegance,
         boldness |-> boldness,
         industry |-> topIndustry.val,
         industryConfidence |-> MathMin(Num(100), topIndustry.key),
         aestheticTags |->
             sliceTags(aestheticTagsOf(colorAnalysis, spatialAnalysis, geometryAnalysis,
                           effectsAnalysis, minimalism, modernness, elegance, boldness)),
         era |-> eraOf(minimalism, geometryAnalysis, effectsAnalysis)]

\* analyzeStyle once minimalism, complexity and modernness are computed:
\* elegance builds on minimalism and boldness on complexity
styleFromBase(colorAnalysis, spatialAnalysis, geometryAnalysis, effectsAnalysis, minimalism, complexity, modernness) ==
    styleFromScores(colorAnalysis, spatialAnalysis, geometryAnalysis, effectsAnalysis,
        minimalism, complexity, modernness,
        eleganceOf(minimalism, colorAnalysis, geometryAnalysis, effectsAnalysis),
        boldnessOf(complexity, colorAnalysis, effectsAnalysis))

analyzeStyle(colorAnalysis, spatialAnalysis, geometryAnalysis, effectsAnalysis) ==
    styleFromBase(colorAnalysis, spatialAnalysis, geometryAnalysis, effectsAnalysis,
        minimalismOf(colorAnalysis, spatialAnalysis, geometryAnalysis),
        complexityOf(spatialAnalysis, geometryAnalysis, effectsAnalysis),
        modernnessOf(colorAnalysis, spatialAnalysis, geometryAnalysis, effectsAnalysis))

-----------------------------------------------------------------------------
(* Bitmaps given to the analyzers *)

\* pixels the bitmaps are made of, as <<r, g, b, a>>
Transparent == <<0, 0, 0, 0>>

OpaqueWhite == <<255, 255, 255, 255>>

OpaqueBlue == <<51, 102, 153, 255>>

OpaqueRed == <<200, 30, 30, 255>>

OpaqueGreen == <<8, 120, 40, 255>>

FaintRed == <<200, 30, 30, 127>>

PixelSet == {Transparent, FaintRed, OpaqueWhite, OpaqueBlue, OpaqueRed, OpaqueGreen}

MaxWidth == 3

MaxHeight == 4

MaxTile == 3

\* the pixel sequences of length 1..MaxTile
Tiles == UNION {[1..n -> PixelSet] : n \in 1..MaxTile}

\* the w x h bitmap whose pixels repeat the tile in row-major order
TiledBitmap(w, h, tile) ==
    [width |-> w, height |-> h,
     data |-> [i \in 1..(4 * w * h) |->
                 tile[(((i - 1) \div 4) % Len(tile)) + 1][((i - 1) % 4) + 1]]]

NoLocals == [loop |-> "none"]

-----------------------------------------------------------------------------
(* analyzeColors applied to a bitmap *)

ColorInit ==
    /\ \E w \in 1..MaxWidth, h \in 1..MaxHeight, tile \in Tiles :
           imageData = TiledBitmap(w, h, tile)
    /\ pc = "start"
    /\ colors = NoResult
    /\ spatial = NoResult
    /\ geometry = NoResult
    /\ effects = NoResult
    /\ style = NoResult
    /\ locals = NoLocals
    /\ previous = NoResult

AnalyzeColors ==
    /\ pc = "start"
    /\ colors' = analyzeColors(imageData)
    /\ pc' = "done"
    /\ UNCHANGED <<imageData, spatial, geometry, effects, style, locals, previous>>

ColorNext == AnalyzeColors

ColorSpec == ColorInit /\ [][ColorNext]_vars

-----------------------------------------------------------------------------
(* Properties of analyzeColors *)

ColorsDone == colors # NoResult

HexDigitSet == {HexDigits[k] : k \in 1..16}

\* '#' followed by exactly six lowercase hexadecimal digits
IsHexColor(h) ==
    /\ Len(h) = 7
    /\ h[1] = "#"
    /\ \A k \in 2..7 : h[k] \in HexDigitSet

\* C2: every hex colour returned by analyzeColors, in dominantColors and in the
\* five palette roles, is '#' followed by exactly six lowercase hex digits.
C2_HexWellFormed ==
    ColorsDone =>
        /\ \A k \in 1..Len(colors.dominantColors) :
               IsHexColor(colors.dominantColors[k].hex)
        /\ IsHexColor(colors.palette.primary)
        /\ IsHexColor(colors.palette.secondary)
        /\ IsHexColor(colors.palette.accent)
        /\ IsHexColor(colors.palette.background)
        /\ IsHexColor(colors.palette.foreground)

\* C3: the proportions returned by analyzeColors satisfy
\* primary + secondary + accent = 100, whatever the number of dominant colours.
C3_ProportionsSum100 ==
    ColorsDone =>
        RAdd(RAdd(colors.proportions.primary, colors.proportions.secondary),
             colors.proportions.accent) = Num(100)

\* C4: the lightnessDistribution returned by analyzeColors satisfies
\* dark + mid + light = 100.
C4_LightnessSum100 ==
    ColorsDone =>
        RAdd(RAdd(colors.lightnessDistribution.dark, colors.lightnessDistribution.mid),
             colors.lightnessDistribution.light) = Num(100)

\* no pixel visited by the stride-4 sampling has alpha >= 128
NoOpaqueSample(img) ==
    \A p \in 0..(img.width * img.height - 1) :
        p % 4 = 0 => img.data[4 * p + 4] < 128

\* C6: when no sampled pixel has alpha >= 128, analyzeColors returns an empty
\* dominantColors list and the fallback roles primary #6366f1, secondary
\* #a855f7, accent #10b981 and background #ffffff.
C6_TransparentFallback ==
    (ColorsDone /\ NoOpaqueSample(imageData)) =>
        /\ colors.dominantColors = <<>>
        /\ colors.palette.primary = <<"#", "6", "3", "6", "6", "f", "1">>
        /\ colors.palette.secondary = <<"#", "a", "8", "5", "5", "f", "7">>
        /\ colors.palette.accent = <<"#", "1", "0", "b", "9", "8", "1">>
        /\ colors.palette.background = <<"#", "f", "f", "f", "f", "f", "f">>

\* C6 witness: a bitmap with opaque pixels, none of them sampled, has been
\* analysed and got the fallback palette.
C6_Witness ==
    /\ ColorsDone
    /\ NoOpaqueSample(imageData)
    /\ \E i \in 1..Len(imageData.data) : i % 4 = 0 /\ imageData.data[i] = 255
    /\ colors.dominantColors = <<>>
    /\ colors.palette.primary = FallbackPrimary

\* C7: every denominator of analyzeColors is non-zero when it divides, so that
\* every numeric field of the ColorAnalysis is a finite number.
C7_AllFinite ==
    ColorsDone =>
        /\ \A k \in 1..Len(colors.dominantColors) :
               IsFinite(colors.dominantColors[k].percentage)
        /\ IsFinite(colors.proportions.primary)
        /\ IsFinite(colors.proportions.secondary)
        /\ IsFinite(colors.proportions.accent)
        /\ IsFinite(colors.temperatureScore)
        /\ IsFinite(colors.saturationScore)
        /\ IsFinite(colors.contrastRatio)
        /\ IsFinite(colors.lightnessDistribution.dark)
        /\ IsFinite(colors.lightnessDistribution.mid)
        /\ IsFinite(colors.lightnessDistribution.light)

\* C8: the percentage values of the colours in dominantColors sum to at most
\* 100.
C8_PercentagesAtMost100 ==
    ColorsDone =>
        RLe(RSumSeq([k \in 1..Len(colors.dominantColors) |->
                        colors.dominantColors[k].percentage]), Num(100))

\* the HSL lightness of the colour chosen as background: that of the first
\* dominant colour with the background's hex, or 100 for the fallback white
ChosenBackgroundLightness ==
    LET isBackground(c) == c.hex = colors.palette.background
        found == SelectSeq(colors.dominantColors, isBackground)
    IN  IF found # <<>> THEN found[1].hsl.l ELSE 100

\* the dominant colours whose lightness is more than 40 away from the
\* background's
ContrastingColors ==
    LET contrasts(c) == Abs(c.hsl.l - ChosenBackgroundLightness) > 40
    IN  SelectSeq(colors.dominantColors, contrasts)

\* C18: for every list of dominant colours, the empty one included, the
\* foreground is the first dominant colour whose lightness differs from the
\* background colour's by more than 40, or else black for a light background
\* and white for a dark one; it is never the same colour as the background.
C18_ForegroundContrasts ==
    ColorsDone =>
        /\ colors.palette.foreground =
               IF ContrastingColors # <<>> THEN ContrastingColors[1].hex
               ELSE IF ChosenBackgroundLightness > 50 THEN Black ELSE White
        /\ colors.palette.foreground # colors.palette.background

\* no pixel visited by the stride-4 sampling is counted with saturation > 10
NoSaturatedSample(img) ==
    \A p \in 0..(img.width * img.height - 1) :
        (p % 4 = 0 /\ img.data[4 * p + 4] >= 128) =>
            rgbToHsl(img.data[4 * p + 1], img.data[4 * p + 2], img.data[4 * p + 3]).s <= 10

\* C20: when no sampled pixel has saturation > 10 (one grey, black or white,
\* or a fully transparent bitmap), analyzeColors returns temperature 'neutral'.
C20_UnsaturatedIsNeutral ==
    (ColorsDone /\ NoSaturatedSample(imageData)) => colors.temperature = "neutral"

-----------------------------------------------------------------------------
(* analyzeStyle applied to upstream analyses within their documented ranges *)

\* percentages 0..100 in steps of 100/PercentSteps
PercentSteps == 1

Percentages == {Rat(100 * k, PercentSteps) : k \in 0..PercentSteps}

\* analyzeSpatial's density for a whitespace percentage
densityOf(whitespacePercentage) ==
    LET densityScore == RSub(Num(100), whitespacePercentage)
    IN  IF RGt(densityScore, Num(70)) THEN "dense"
        ELSE IF RGt(densityScore, Num(40)) THEN "balanced"
        ELSE "spacious"

\* analyzeEffects' shadow intensity for a shadow score
shadowIntensityOf(shadowScore) ==
    IF RLt(shadowScore, Num(5)) THEN "none"
    ELSE IF RLt(shadowScore, Num(20)) THEN "subtle"
    ELSE IF RLt(shadowScore, Num(50)) THEN "medium"
    ELSE "dramatic"

\* the fields of a ColorAnalysis that analyzeStyle reads
StyleColors ==
    {[paletteType |-> pt, saturation |-> sat, contrast |-> con, temperature |-> tmp,
      lightnessDistribution |-> [dark |-> ld[1], mid |-> ld[2], light |-> ld[3]]] :
        pt \in {"monochromatic", "complementary"},
        sat \in {"vibrant", "moderate", "muted", "desaturated"},
        con \in {"high", "low"},
        tmp \in {"warm", "cool", "neutral"},
        ld \in {<<Num(100), Num(0), Num(0)>>, <<Num(0), Num(0), Num(100)>>,
                <<Num(45), Num(0), Num(55)>>}}

\* the fields of a SpatialAnalysis that analyzeStyle reads
StyleSpatials ==
    {[whitespacePercentage |-> ws, density |-> densityOf(ws), balance |-> bal] :
        ws \in Percentages,
        bal \in {"symmetric", "centered", "asymmetric-left"}}

\* the fields of a GeometryAnalysis that analyzeStyle reads
StyleGeometries ==
    {[edgeDensity |-> ed, cornerStyle |-> cs] :
        ed \in Percentages,
        cs \in {"sharp", "soft", "rounded", "pill", "mixed"}}

\* the fields of an EffectsAnalysis that analyzeStyle reads
StyleEffects ==
    {[hasGlassmorphism |-> glass,
      gradients |-> [detected |-> det, count |-> gs[1]],
      shadows |-> [score |-> gs[2], intensity |-> shadowIntensityOf(gs[2])],
      depth |-> dep] :
        glass \in BOOLEAN, det \in BOOLEAN,
        gs \in {<<0, Num(0)>>, <<3, Num(100)>>},
        dep \in {"flat", "subtle", "neumorphic"}}

StyleInit ==
    /\ imageData = NoResult
    /\ pc = "style"
    /\ colors \in StyleColors
    /\ spatial \in StyleSpatials
    /\ geometry \in StyleGeometries
    /\ effects \in StyleEffects
    /\ style = NoResult
    /\ locals = NoLocals
    /\ previous = NoResult

AnalyzeStyle ==
    /\ pc = "style"
    /\ style' = analyzeStyle(colors, spatial, geometry, effects)
    /\ pc' = "done"
    /\ UNCHANGED <<imageData, colors, spatial, geometry, effects, locals, previous>>

StyleNext == AnalyzeStyle

StyleSpec == StyleInit /\ [][StyleNext]_vars

\* the three roles are hex strings of the dominant colours
FromDominantColors ==
    {colors.palette.primary, colors.palette.secondary, colors.palette.accent}
        \subseteq {colors.dominantColors[k].hex : k \in 1..Len(colors.dominantColors)}

\* C30: for every list of dominant colours the quantizer produces, the
\* primary, secondary and accent roles returned by extractPalette are three
\* pairwise different colours, whether they are dominant colours or hardcoded
\* fallbacks.
C30_RolesPairwiseDifferent ==
    ColorsDone =>
        /\ colors.palette.primary # colors.palette.secondary
        /\ colors.palette.primary # colors.palette.accent
        /\ colors.palette.secondary # colors.palette.accent

\* C30 witness: an analysis whose primary, secondary and accent are all three
\* taken from the dominant colours.
C30_Witness == ColorsDone /\ FromDominantColors

-----------------------------------------------------------------------------
(* Properties of analyzeStyle *)

StyleDone == style # NoResult

InRange0To100(v) == RGe(v, Num(0)) /\ RLe(v, Num(100))

\* C9: each of the five scores returned by analyzeStyle (minimalism,
\* complexity, modernness, elegance, boldness) lies in [0, 100].
C9_ScoresInRange ==
    StyleDone =>
        /\ InRange0To100(style.minimalism)
        /\ InRange0To100(style.complexity)
        /\ InRange0To100(style.modernness)
        /\ InRange0To100(style.elegance)
        /\ InRange0To100(style.boldness)

\* C9 witness: analyzeStyle has run on inputs whose weighted complexity sum is
\* 50 + 30 + 30 + 20 = 130 and whose minimalism sum is 0, and returned 100.
C9_Witness ==
    /\ StyleDone
    /\ geometry.edgeDensity = Num(100)
    /\ effects.gradients.count = 3
    /\ effects.shadows.score = Num(100)
    /\ spatial.whitespacePercentage = Num(0)
    /\ style.complexity = Num(100)

IndustryOrder ==
    <<"tech", "finance", "creative", "healthcare", "ecommerce", "media", "general">>

\* the seven accumulated scores of the analysed inputs
AccumulatedScores ==
    industryScoresOf(colors, spatial, effects, style.minimalism, style.complexity,
                     style.modernness, style.boldness)

\* C10: industry is the label with the maximum of the seven accumulated scores
\* (general starting at 50); among labels sharing the maximum the earliest in
\* the order tech, finance, creative, healthcare, ecommerce, media, general is
\* returned, and industryConfidence is that maximum capped at 100.
C10_IndustryArgmax ==
    StyleDone =>
        LET scores == AccumulatedScores
        IN  /\ [k \in 1..7 |-> scores[k].val] = IndustryOrder
            /\ scores[7].key = Num(50)
            /\ \E k \in 1..7 :
                   /\ style.industry = IndustryOrder[k]
                   /\ \A j \in 1..7 : RLe(scores[j].key, scores[k].key)
                   /\ \A j \in 1..(k - 1) : RLt(scores[j].key, scores[k].key)
                   /\ style.industryConfidence =
                          (IF RGt(scores[k].key, Num(100)) THEN Num(100)
                           ELSE scores[k].key)

\* C10 witness: three labels (tech, creative, general) share the maximum score
\* 50 and the earliest of them, tech, is returned.
C10_Witness ==
    /\ StyleDone
    /\ AccumulatedScores[1].key = Num(50)
    /\ AccumulatedScores[3].key = Num(50)
    /\ style.industry = "tech"
    /\ style.industryConfidence = Num(50)

\* the 16 tags in the order their rules are checked
TagOrder ==
    <<"Minimalist", "Bold", "Elegant", "Modern", "Glassmorphism", "Gradient-rich",
      "Dark Mode", "Light Mode", "Warm", "Cool", "Vibrant", "Muted", "Flat Design",
      "Neumorphic", "Pill-shaped", "Airy">>

\* the rule of tag k holds of the analysed inputs and the returned scores
TagRuleHolds(k) ==
    CASE k = 1  -> RGt(style.minimalism, Num(70))
      [] k = 2  -> RGt(style.boldness, Num(70))
      [] k = 3  -> RGt(style.elegance, Num(70))
      [] k = 4  -> RGt(style.modernness, Num(70))
      [] k = 5  -> effects.hasGlassmorphism
      [] k = 6  -> effects.gradients.detected
      [] k = 7  -> RGt(colors.lightnessDistribution.dark, Num(60))
      [] k = 8  -> RGt(colors.lightnessDistribution.light, Num(60))
      [] k = 9  -> colors.temperature = "warm"
      [] k = 10 -> colors.temperature = "cool"
      [] k = 11 -> colors.saturation = "vibrant"
      [] k = 12 -> colors.saturation = "muted"
      [] k = 13 -> effects.depth = "flat"
      [] k = 14 -> effects.depth = "neumorphic"
      [] k = 15 -> geometry.cornerStyle = "pill"
      [] k = 16 -> spatial.density = "spacious"

\* the numbers of the rules that hold, in increasing order
HeldTags == SelectSeq([k \in 1..16 |-> k], TagRuleHolds)

\* C11: aestheticTags has at most 8 entries, no duplicate, and is exactly the
\* first 8 (or fewer) tags whose rule holds, in the order of the 16 rules.
C11_TagsFirstEightInOrder ==
    StyleDone =>
        LET tags == style.aestheticTags
            held == HeldTags
        IN  /\ Len(tags) <= 8
            /\ \A i, j \in 1..Len(tags) : i # j => tags[i] # tags[j]
            /\ tags = [i \in 1..Min2(8, Len(held)) |-> TagOrder[held[i]]]

\* C11 witness: more than 8 rules hold and the 8 tags returned stop at Warm.
C11_Witness ==
    /\ StyleDone
    /\ Len(HeldTags) > 8
    /\ Len(style.aestheticTags) = 8
    /\ style.aestheticTags[1] = "Minimalist"
    /\ style.aestheticTags[8] = "Warm"

FlatAndMinimal == effects.depth = "flat" /\ RGt(style.minimalism, Num(60))

GlassOrPill == effects.hasGlassmorphism \/ geometry.cornerStyle = "pill"

DramaticAndSharp == effects.shadows.intensity = "dramatic" /\ geometry.cornerStyle = "sharp"

\* C12: era is 'modern' when depth is flat and minimalism > 60; otherwise
\* 'futuristic' when hasGlassmorphism or cornerStyle is pill; otherwise
\* 'classic' when shadows are dramatic and corners sharp; otherwise 'modern'.
\* So era is 'classic' only with dramatic shadows, sharp corners, no
\* glassmorphism, and the flat-and-minimal rule not applying.
C12_EraPriorityChain ==
    StyleDone =>
        /\ style.era = (IF FlatAndMinimal THEN "modern"
                        ELSE IF GlassOrPill THEN "futuristic"
                        ELSE IF DramaticAndSharp THEN "classic"
                        ELSE "modern")
        /\ style.era = "classic" =>
               /\ DramaticAndSharp
               /\ ~effects.hasGlassmorphism
               /\ ~FlatAndMinimal

\* C12 witness: dramatic shadows and sharp corners together with detected
\* glassmorphism, the flat-and-minimal rule not applying: era is futuristic.
C12_Witness ==
    /\ StyleDone
    /\ DramaticAndSharp
    /\ effects.hasGlassmorphism
    /\ ~FlatAndMinimal
    /\ style.era = "futuristic"

\* the pairs of tags that contradict each other
OpposingTags ==
    {<<"Warm", "Cool">>, <<"Dark Mode", "Light Mode">>, <<"Vibrant", "Muted">>,
     <<"Flat Design", "Neumorphic">>}

HasTag(t) == \E k \in 1..Len(style.aestheticTags) : style.aestheticTags[k] = t

\* C29: for a ColorAnalysis whose lightness distribution sums to 100,
\* aestheticTags never holds both tags of an opposing pair (Warm and Cool,
\* Dark Mode and Light Mode, Vibrant and Muted, Flat Design and Neumorphic).
C29_NoOpposingTags ==
    (/\ StyleDone
     /\ RAdd(RAdd(colors.lightnessDistribution.dark, colors.lightnessDistribution.mid),
             colors.lightnessDistribution.light) = Num(100)) =>
        \A pair \in OpposingTags : ~(HasTag(pair[1]) /\ HasTag(pair[2]))

\* C29 witness: a lightness distribution of 45 / 0 / 55 has been analysed and
\* neither Dark Mode nor Light Mode is among the tags, while one tag of each
\* other pair is: Cool, Muted and Neumorphic.
C29_Witness ==
    /\ StyleDone
    /\ colors.lightnessDistribution.dark = Num(45)
    /\ colors.lightnessDistribution.light = Num(55)
    /\ ~HasTag("Dark Mode") /\ ~HasTag("Light Mode")
    /\ HasTag("Cool") /\ ~HasTag("Warm")
    /\ HasTag("Muted") /\ ~HasTag("Vibrant")
    /\ HasTag("Neumorphic") /\ ~HasTag("Flat Design")

-----------------------------------------------------------------------------
(* Spatial analysis *)

\* byte index (0-based) of the pixel at column x, row y
ByteIndex(width, x, y) == (y * width + x) * 4

\* 0.299 * r + 0.587 * g + 0.114 * b of the pixel at byte index i, in
\* thousandths
luminanceAt(data, i) == 299 * data[i + 1] + 587 * data[i + 2] + 114 * data[i + 3]

hslAt(data, i) == rgbToHsl(data[i + 1], data[i + 2], data[i + 3])

\* (255 - luminance) / 255 + hsl.s / 200, in units of 1/255000
visualWeightAt(data, i) == 255000 - luminanceAt(data, i) + 1275 * hslAt(data, i).s

\* hsl.l > 90 && hsl.s < 10
isWhitespace(hsl) == hsl.l > 90 /\ hsl.s < 10

\* Math.sqrt((x - width/2)^2 + (y - height/2)^2) < Math.min(width, height) / 4,
\* both sides squared and multiplied by 16
inCenter(x, y, width, height) ==
    4 * ((2 * x - width) * (2 * x - width) + (2 * y - height) * (2 * y - height))
        < Min2(width, height) * Min2(width, height)

\* membership of pixel (x, y) in the five regions
inRegion(key, x, y, width, height) ==
    CASE key = "center" -> inCenter(x, y, width, height)
      [] key = "top"    -> 3 * y < height
      [] key = "bottom" -> 3 * y > 2 * height
      [] key = "left"   -> 3 * x < width
      [] key = "right"  -> 3 * x > 2 * width

RegionKeys == <<"top", "bottom", "left", "right", "center">>

\* regions[key] after the pixel loop: weight in units of 1/255000, and pixels
regionOf(img, key) ==
    LET n  == img.width * img.height
        in == [k \in 1..n |-> inRegion(key, (k - 1) % img.width, (k - 1) \div img.width,
                                       img.width, img.height)]
        ws == [k \in 1..n |-> IF in[k] THEN visualWeightAt(img.data, 4 * (k - 1)) ELSE 0]
        ps == [k \in 1..n |-> IF in[k] THEN 1 ELSE 0]
    IN  [weight |-> SumUpTo(ws, n), pixels |-> SumUpTo(ps, n)]

\* whitespacePixels after the pixel loop
whitespacePixelsOf(img) ==
    LET n == img.width * img.height
    IN  SumUpTo([k \in 1..n |-> IF isWhitespace(hslAt(img.data, 4 * (k - 1))) THEN 1 ELSE 0], n)

\* visualWeight before normalisation: weight / pixels, or 0 for an empty region
rawVisualWeight(region) ==
    IF region.pixels > 0 THEN Rat(region.weight, 255000 * region.pixels) ELSE Num(0)

\* the weights scaled to percent without the division by the largest
noNormalize(raw, maxWeight) ==
    [top |-> RMul(raw[1], Num(100)), bottom |-> RMul(raw[2], Num(100)),
     left |-> RMul(raw[3], Num(100)), right |-> RMul(raw[4], Num(100)),
     center |-> RMul(raw[5], Num(100))]

\* visualWeight normalised to 0-100 by the largest of the five; raw holds
\* the weights of top, bottom, left, right, center in this order
normalizeWeights(raw, maxWeight) ==
    LET norm(k) == IF RGt(maxWeight, Num(0)) THEN RMul(RDiv(raw[k], maxWeight), Num(100))
                   ELSE Num(50)
    IN  [top |-> norm(1), bottom |-> norm(2), left |-> norm(3), right |-> norm(4),
         center |-> norm(5)]

\* Math.max(...Object.values(visualWeight))
maxWeightOf(raw) ==
    MathMax(MathMax(MathMax(MathMax(raw[1], raw[2]), raw[3]), raw[4]), raw[5])

rawWeightsOf(img) == [k \in 1..5 |-> rawVisualWeight(regionOf(img, RegionKeys[k]))]

weightsFromRaw(raw) == normalizeWeights(raw, maxWeightOf(raw))

visualWeightOf(img) == weightsFromRaw(rawWeightsOf(img))

balanceOf(visualWeight) ==
    LET horizontalBalance == RSub(visualWeight.left, visualWeight.right)
        verticalBalance   == RSub(visualWeight.top, visualWeight.bottom)
    IN  IF RLt(RAbs(horizontalBalance), Num(15)) /\ RLt(RAbs(verticalBalance), Num(15))
        THEN (IF RGt(visualWeight.center, Num(60)) THEN "centered" ELSE "symmetric")
        ELSE IF RGt(horizontalBalance, Num(20)) THEN "asymmetric-left"
        ELSE IF RLt(horizontalBalance, Num(-20)) THEN "asymmetric-right"
        ELSE IF RGt(verticalBalance, Num(20)) THEN "asymmetric-top"
        ELSE "asymmetric-bottom"

\* |data[i1] - data[i2]| summed over r, g, b
channelDiff(data, i1, i2) ==
    Abs(data[i1 + 1] - data[i2 + 1]) + Abs(data[i1 + 2] - data[i2 + 2])
        + Abs(data[i1 + 3] - data[i2 + 3])

\* the inner loop of grid detection, for (y = 0; y < height - 10; y += 10),
\* on column x: the number of row pairs (y, y + 10) that differ by less than 50
RECURSIVE columnConsistency(_, _, _)
columnConsistency(img, x, y) ==
    IF y < img.height - 10
    THEN (IF channelDiff(img.data, ByteIndex(img.width, x, y),
                         ByteIndex(img.width, x, y + 10)) < 50 THEN 1 ELSE 0)
         + columnConsistency(img, x, y + 10)
    ELSE 0

\* peaks: the column scores above 1.2 times their average
peaksOf(columnScores) ==
    LET avgConsistency == RDiv(Num(SumUpTo(columnScores, Len(columnScores))),
                               Num(Len(columnScores)))
    IN  Cardinality({k \in 1..Len(columnScores) :
                        RGt(Num(columnScores[k]), RMul(avgConsistency, Rat(12, 10)))})

gridSize == 5

\* cellWeight and cellPixels of focal-point cell (gx, gy); the weight is
\* (255 - lum) / 255 + hsl.s / 100 in units of 1/255000
focalCell(img, gx, gy) ==
    LET y0 == MathFloor(gy * img.height, gridSize)
        x0 == MathFloor(gx * img.width, gridSize)
        ch == MathFloor((gy + 1) * img.height, gridSize) - y0
        cw == MathFloor((gx + 1) * img.width, gridSize) - x0
        at == [k \in 1..(cw * ch) |->
                 ByteIndex(img.width, x0 + ((k - 1) % cw), y0 + ((k - 1) \div cw))]
        ws == [k \in 1..(cw * ch) |->
                 255000 - luminanceAt(img.data, at[k]) + 2550 * hslAt(img.data, at[k]).s]
    IN  [cellWeight |-> SumUpTo(ws, cw * ch), cellPixels |-> cw * ch]

\* avgWeight = cellWeight / cellPixels of a cell
avgWeightOf(cell) == Rat(cell.cellWeight, 255000 * cell.cellPixels)

\* the focal points pushed for cells 1..c of the 5 x 5 cell loops (gy outer,
\* gx inner), given the cells' average weights; keyed by intensity for the
\* sort that follows
RECURSIVE pushFocalPoints(_, _)
pushFocalPoints(avgWeights, c) ==
    IF c = 0 THEN <<>>
    ELSE IF RGt(avgWeights[c], Rat(6, 10))
    THEN Append(pushFocalPoints(avgWeights, c - 1),
                [key |-> avgWeights[c],
                 val |-> [x |-> Rat(2 * ((c - 1) % gridSize) + 1, 2 * gridSize),
                          y |-> Rat(2 * ((c - 1) \div gridSize) + 1, 2 * gridSize),
                          intensity |-> avgWeights[c]]])
    ELSE pushFocalPoints(avgWeights, c - 1)

focalPointsOf(img) ==
    pushFocalPoints([c \in 1..(gridSize * gridSize) |->
                        avgWeightOf(focalCell(img, (c - 1) % gridSize, (c - 1) \div gridSize))],
                    gridSize * gridSize)

\* the returned SpatialAnalysis, given the computed values
spatialResult(whitespacePercentage, visualWeight, peaks, focalPoints) ==
    [density |-> densityOf(whitespacePercentage),
     densityScore |-> RSub(Num(100), whitespacePercentage),
     whitespacePercentage |-> whitespacePercentage,
     visualWeight |-> visualWeight,
     balance |-> balanceOf(visualWeight),
     gridDetection |-> [possibleColumns |-> Max2(1, Min2(12, peaks)),
                        confidence |-> Min2(100, peaks * 15)],
     focalPoints |-> Slice(focalPoints, 5)]

\* analyzeSpatial's result, given the columnScores its grid loop collected
analyzeSpatial(img, columnScores) ==
    spatialResult(RMul(Rat(whitespacePixelsOf(img), img.width * img.height), Num(100)),
                  visualWeightOf(img),
                  peaksOf(columnScores),
                  Unkeyed(SortDesc(focalPointsOf(img))))

-----------------------------------------------------------------------------
(* Geometry analysis *)

\* getGray(px, py) in thousandths
getGray(img, px, py) == luminanceAt(img.data, ByteIndex(img.width, px, py))

sobelGx(img, x, y) ==
    - getGray(img, x - 1, y - 1) + getGray(img, x + 1, y - 1)
    - 2 * getGray(img, x - 1, y) + 2 * getGray(img, x + 1, y)
    - getGray(img, x - 1, y + 1) + getGray(img, x + 1, y + 1)

sobelGy(img, x, y) ==
    - getGray(img, x - 1, y - 1) - 2 * getGray(img, x, y - 1) - getGray(img, x + 1, y - 1)
    + getGray(img, x - 1, y + 1) + 2 * getGray(img, x, y + 1) + getGray(img, x + 1, y + 1)

\* a * a for 0 <= a < 2^21 as <<hi, lo>> with a * a = hi * 10^6 + lo
WideSquare(a) ==
    LET a1  == a \div 1000
        a0  == a % 1000
        mid == 2 * a1 * a0
        low == (mid % 1000) * 1000 + a0 * a0
    IN  <<a1 * a1 + (mid \div 1000) + (low \div 1000000), low % 1000000>>

\* the edge test with the comparison reversed: magnitude < 50
magnitudeUnder50(gx, gy) ==
    LET p  == WideSquare(Abs(gx))
        q  == WideSquare(Abs(gy))
        lo == p[2] + q[2]
        hi == p[1] + q[1] + (lo \div 1000000)
    IN  hi < 2500

\* Math.sqrt(gx * gx + gy * gy) > 50 with gx, gy in thousandths:
\* gx^2 + gy^2 > 2500 * 10^6
magnitudeOver50(gx, gy) ==
    LET p  == WideSquare(Abs(gx))
        q  == WideSquare(Abs(gy))
        lo == p[2] + q[2]
        hi == p[1] + q[1] + (lo \div 1000000)
    IN  hi > 2500 \/ (hi = 2500 /\ (lo % 1000000) > 0)

\* edges: the interior positions <<x, y>> whose Sobel magnitude exceeds 50
edgesOf(img) ==
    {pos \in (1..(img.width - 2)) \X (1..(img.height - 2)) :
        magnitudeOver50(sobelGx(img, pos[1], pos[2]), sobelGy(img, pos[1], pos[2]))}

sampleSize == 20

\* the 5 x 5 probe around (sx, sy): the edge positions counted as horizontal
\* (|dx| > |dy|), vertical (|dy| > |dx|) and diagonal
cornerProbe(img, edges, sx, sy) ==
    LET hits == {d \in (-2..2) \X (-2..2) :
                    /\ sy + d[2] > 0
                    /\ sy + d[2] < img.height - 1
                    /\ sx + d[1] > 0
                    /\ sx + d[1] < img.width - 1
                    /\ <<sx + d[1], sy + d[2]>> \in edges}
    IN  [horizontalEdges |-> Cardinality({d \in hits : Abs(d[1]) > Abs(d[2])}),
         verticalEdges   |-> Cardinality({d \in hits : Abs(d[2]) > Abs(d[1])}),
         diagonalEdges   |-> Cardinality({d \in hits : Abs(d[1]) = Abs(d[2])})]

isSharpCorner(probe) ==
    probe.horizontalEdges > 2 /\ probe.verticalEdges > 2 /\ probe.diagonalEdges < 3

isRoundedCorner(probe) == probe.diagonalEdges > 3

\* cornerStyle and avgRadius from roundedRatio
cornerStyleOf(roundedRatio) ==
    IF RLt(roundedRatio, Rat(2, 10)) THEN [cornerStyle |-> "sharp", avgRadius |-> 2]
    ELSE IF RLt(roundedRatio, Rat(4, 10)) THEN [cornerStyle |-> "soft", avgRadius |-> 6]
    ELSE IF RLt(roundedRatio, Rat(7, 10)) THEN [cornerStyle |-> "rounded", avgRadius |-> 12]
    ELSE IF RLt(roundedRatio, Rat(9, 10)) THEN [cornerStyle |-> "pill", avgRadius |-> 24]
    ELSE [cornerStyle |-> "mixed", avgRadius |-> 10]

\* analyzeGeometry's result, given the edges and the corner counts its loops
\* collected
analyzeGeometry(img, edges, sharpCorners, roundedCorners) ==
    LET edgeDensity  == RMul(Rat(Cardinality(edges), img.width * img.height), Num(100))
        totalCorners == sharpCorners + roundedCorners
        roundedRatio == IF totalCorners > 0 THEN Rat(roundedCorners, totalCorners)
                        ELSE Rat(1, 2)
        corner       == cornerStyleOf(roundedRatio)
    IN  [cornerStyle |-> corner.cornerStyle,
         estimatedRadius |-> [min |-> Max2(0, corner.avgRadius - 4),
                              max |-> corner.avgRadius + 8,
                              average |-> corner.avgRadius],
         edgeDensity |-> edgeDensity,
         linearity |-> MathMax(Num(0), MathMin(Num(100),
                           RAdd(RMul(RSub(Num(1), roundedRatio), Num(80)), Num(20)))),
         shapes |-> [rectangles |-> sharpCorners,
                     circles |-> MathFloor(roundedCorners * 3, 10),
                     organic |-> MathFloor(roundedCorners * 7, 10)]]

-----------------------------------------------------------------------------
(* Effects analysis *)

\* the largest r in lo..hi with r * r <= n
RECURSIVE ISqrtIn(_, _, _)
ISqrtIn(n, lo, hi) ==
    IF lo = hi THEN lo
    ELSE LET mid == (lo + hi + 1) \div 2
         IN  IF mid * mid <= n THEN ISqrtIn(n, mid, hi) ELSE ISqrtIn(n, lo, mid - 1)

\* colorDistance of the pixels at byte indexes i1 and i2, in hundredths,
\* rounded down
colorDistance(data, i1, i2) ==
    LET dr == data[i1 + 1] - data[i2 + 1]
        dg == data[i1 + 2] - data[i2 + 2]
        db == data[i1 + 3] - data[i2 + 3]
    IN  ISqrtIn(10000 * (dr * dr + dg * dg + db * db), 0, 46340)

\* the tests of one region with the horizontal range cut at 100
gradientTestsNarrow(hDiff, vDiff, dDiff, acc) ==
    LET hHit  == hDiff > 2000 /\ hDiff < 10000
        dirs1 == IF hHit /\ 2 * vDiff < hDiff
                 THEN Append(acc.gradientDirections, "horizontal")
                 ELSE acc.gradientDirections
        vHit  == /\ vDiff > 2000
                 /\ vDiff < 15000
                 /\ \/ ~(\E k \in 1..Len(dirs1) : dirs1[k] = "horizontal")
                    \/ 2 * hDiff < vDiff
        dirs2 == IF vHit THEN Append(dirs1, "vertical") ELSE dirs1
        dHit  == dDiff > 2000 /\ dDiff < 20000 /\ hDiff < 10000 /\ vDiff < 10000
    IN  [gradientRegions |-> acc.gradientRegions + (IF hHit THEN 1 ELSE 0)
                                 + (IF vHit THEN 1 ELSE 0),
         totalRegions |-> acc.totalRegions + 1,
         gradientDirections |-> IF dHit THEN Append(dirs2, "diagonal") ELSE dirs2]

\* the tests of one region of the gradient pass, given its three differences
\* in hundredths
gradientTests(hDiff, vDiff, dDiff, acc) ==
    LET hHit  == hDiff > 2000 /\ hDiff < 15000
        dirs1 == IF hHit /\ 2 * vDiff < hDiff
                 THEN Append(acc.gradientDirections, "horizontal")
                 ELSE acc.gradientDirections
        vHit  == /\ vDiff > 2000
                 /\ vDiff < 15000
                 /\ \/ ~(\E k \in 1..Len(dirs1) : dirs1[k] = "horizontal")
                    \/ 2 * hDiff < vDiff
        dirs2 == IF vHit THEN Append(dirs1, "vertical") ELSE dirs1
        dHit  == dDiff > 2000 /\ dDiff < 20000 /\ hDiff < 10000 /\ vDiff < 10000
    IN  [gradientRegions |-> acc.gradientRegions + (IF hHit THEN 1 ELSE 0)
                                 + (IF vHit THEN 1 ELSE 0),
         totalRegions |-> acc.totalRegions + 1,
         gradientDirections |-> IF dHit THEN Append(dirs2, "diagonal") ELSE dirs2]

\* one region of the gradient pass, with its corner at (sx, sy)
gradientRegion(img, sx, sy, acc) ==
    LET tl == ByteIndex(img.width, sx, sy)
        tr == ByteIndex(img.width, sx + 10, sy)
        bl == ByteIndex(img.width, sx, sy + 10)
        br == ByteIndex(img.width, sx + 10, sy + 10)
    IN  gradientTests(
            colorDistance(img.data, tl, tr) + colorDistance(img.data, bl, br),
            colorDistance(img.data, tl, bl) + colorDistance(img.data, tr, br),
            colorDistance(img.data, tl, br),
            acc)

\* for (sy = 0; sy < height - 10; sy += 10) for (sx = 0; sx < width - 10; sx += 10)
RECURSIVE gradientLoop(_, _, _, _)
gradientLoop(img, sx, sy, acc) ==
    IF sy >= img.height - 10 THEN acc
    ELSE IF sx >= img.width - 10 THEN gradientLoop(img, 0, sy + 10, acc)
    ELSE gradientLoop(img, sx + 10, sy, gradientRegion(img, sx, sy, acc))

\* gradientRegions, totalRegions and gradientDirections after the gradient pass
gradientPass(img) ==
    gradientLoop(img, 0, 0, [gradientRegions |-> 0, totalRegions |-> 0,
                             gradientDirections |-> <<>>])

\* [...new Set(gradientDirections)]: first occurrences, in order
RECURSIVE uniqueOf(_)
uniqueOf(s) ==
    IF s = <<>> THEN <<>>
    ELSE LET front == uniqueOf(SubSeq(s, 1, Len(s) - 1))
         IN  IF \E k \in 1..Len(front) : front[k] = s[Len(s)] THEN front
             ELSE Append(front, s[Len(s)])

\* hsl.l < 30 && hsl.s < 30, and then hsl.l < 15
isShadow(hsl) == hsl.l < 30 /\ hsl.s < 30 /\ hsl.l < 15

\* shadowPixels after the pixel loop
shadowPixelsOf(img) ==
    LET n == img.width * img.height
    IN  SumUpTo([k \in 1..n |-> IF isShadow(hslAt(img.data, 4 * (k - 1))) THEN 1 ELSE 0], n)

\* depth from shadowScore * 0.4 + contrastRatio * 3 + (dark > 20 ? 20 : 0)
depthScoreOf(shadowScore, colorAnalysis) ==
    RAdd(RAdd(RMul(shadowScore, Rat(4, 10)), RMul(colorAnalysis.contrastRatio, Num(3))),
         IF RGt(colorAnalysis.lightnessDistribution.dark, Num(20)) THEN Num(20) ELSE Num(0))

depthOf(depthScore) ==
    IF RLt(depthScore, Num(20)) THEN "flat"
    ELSE IF RLt(depthScore, Num(40)) THEN "subtle"
    ELSE IF RLt(depthScore, Num(70)) THEN "material"
    ELSE "neumorphic"

blurSamples == 50

\* the 5 x 5 region around (x, y) is smooth: 3 < variance / 75 < 15, where a
\* read outside the data is undefined and makes the variance NaN
isBlurred(img, x, y) ==
    LET c  == ByteIndex(img.width, x, y)
        at == [k \in 1..25 |->
                 ByteIndex(img.width, x + ((k - 1) % 5) - 2, y + ((k - 1) \div 5) - 2)]
        variance == SumUpTo([k \in 1..25 |-> channelDiff(img.data, at[k], c)], 25)
    IN  /\ \A k \in 1..25 : at[k] >= 0 /\ at[k] + 3 <= Len(img.data)
        /\ variance < 15 * 75
        /\ variance > 3 * 75

\* noisePixels: consecutive pixels whose channels differ by more than 5 and
\* less than 20 in total
noisePixelsOf(img) ==
    LET n == img.width * img.height
    IN  SumUpTo([k \in 1..(n - 1) |->
                    LET diff == channelDiff(img.data, 4 * (k - 1), 4 * k)
                    IN  IF diff > 5 /\ diff < 20 THEN 1 ELSE 0], n - 1)

\* gradients, shadows and depth as returned, given the gradient pass's
\* counts and the shadow score
effectsFromScores(grad, directions, shadowScore, depthScore) ==
    [gradients |-> [detected |-> RGt(Rat(grad.gradientRegions, grad.totalRegions),
                                     Rat(1, 10)),
                    count |-> Len(directions),
                    directions |-> directions,
                    types |-> IF RGt(Rat(grad.gradientRegions, grad.totalRegions),
                                     Rat(1, 10))
                              THEN <<"linear">> ELSE <<>>],
     shadows |-> [intensity |-> shadowIntensityOf(shadowScore),
                  score |-> shadowScore,
                  direction |-> IF RGt(shadowScore, Num(10)) THEN "bottom-right"
                                ELSE "none"],
     depth |-> depthOf(depthScore),
     depthScore |-> depthScore]

effectsFromPasses(grad, shadowScore, colorAnalysis) ==
    effectsFromScores(grad, uniqueOf(grad.gradientDirections), shadowScore,
                      depthScoreOf(shadowScore, colorAnalysis))

\* what analyzeEffects has computed when its sampling loop starts: gradients,
\* shadows and depth
effectsBeforeSampling(img, colorAnalysis) ==
    effectsFromPasses(
        gradientPass(img),
        MathMin(Num(100),
                RMul(Rat(shadowPixelsOf(img), img.width * img.height), Num(1000))),
        colorAnalysis)

\* analyzeEffects's result, given what it computed before the sampling loop
\* and the blurScore the loop collected
analyzeEffects(img, before, blurScore) ==
    LET glassmorphismScore == MathMin(Num(100), RMul(Rat(blurScore, blurSamples), Num(150)))
        noiseLevel == RMul(Rat(noisePixelsOf(img), img.width * img.height), Num(100))
    IN  [hasGlassmorphism |-> RGt(glassmorphismScore, Num(30)),
         glassmorphismScore |-> glassmorphismScore,
         gradients |-> before.gradients,
         shadows |-> before.shadows,
         depth |-> before.depth,
         depthScore |-> before.depthScore,
         hasNoise |-> RGt(noiseLevel, Num(10)),
         noiseLevel |-> noiseLevel]

-----------------------------------------------------------------------------
(* The pipeline of analyzeImage on a decoded bitmap, run twice *)

SmallSide == 1

LargeSide == 20

Sides == {SmallSide, LargeSide}

\* draws of Math.random(): k / RandomSteps for k in 0..RandomSteps-1
RandomSteps == 2

\* the number of elements columnScores can hold before its allocation fails
MaxColumnScores == 40

\* the grey level of column x of the panel design: flat 200 up to column 7,
\* then falling by 5 per column
PanelGrey(x) == IF x < 8 THEN 200 ELSE Max2(0, 200 - 5 * (x - 7))

Designs == {"white", "transparent", "panel"}

DesignPixel(design, x, y) ==
    CASE design = "white"       -> OpaqueWhite
      [] design = "transparent" -> Transparent
      [] design = "panel"       -> <<PanelGrey(x), PanelGrey(x), PanelGrey(x), 255>>

DesignBitmap(design, w, h) ==
    [width |-> w, height |-> h,
     data |-> [i \in 1..(4 * w * h) |->
                 DesignPixel(design, ((i - 1) \div 4) % w, ((i - 1) \div 4) \div w)
                     [((i - 1) % 4) + 1]]]

Init ==
    /\ \E w \in Sides, h \in Sides, design \in Designs :
           imageData = DesignBitmap(design, w, h)
    /\ pc = "colors"
    /\ colors = NoResult
    /\ spatial = NoResult
    /\ geometry = NoResult
    /\ effects = NoResult
    /\ style = NoResult
    /\ locals = NoLocals
    /\ previous = NoResult

\* const colorAnalysis = analyzeColors(imageData)
RunColors ==
    /\ pc = "colors"
    /\ colors' = analyzeColors(imageData)
    /\ pc' = "spatial"
    /\ UNCHANGED <<imageData, spatial, geometry, effects, style, locals, previous>>

\* analyzeSpatial up to the start of its grid-detection loop
SpatialBegin ==
    /\ pc = "spatial"
    /\ locals' = [loop |-> "grid", x |-> 0, columnScores |-> <<>>]
    /\ pc' = "grid"
    /\ UNCHANGED <<imageData, colors, spatial, geometry, effects, style, previous>>

\* one iteration of for (let x = 0; x < width; x += Math.floor(width / 20))
GridStep ==
    /\ pc = "grid"
    /\ locals.x < imageData.width
    /\ Len(locals.columnScores) < MaxColumnScores
    /\ locals' = [locals EXCEPT
                    !.columnScores = Append(@, columnConsistency(imageData, locals.x, 0)),
                    !.x = @ + MathFloor(imageData.width, 20)]
    /\ UNCHANGED <<imageData, pc, colors, spatial, geometry, effects, style, previous>>

\* columnScores.push(consistency) on an array that cannot grow: the run ends
\* with an error
GridOverflow ==
    /\ pc = "grid"
    /\ locals.x < imageData.width
    /\ Len(locals.columnScores) >= MaxColumnScores
    /\ pc' = "failed"
    /\ UNCHANGED <<imageData, colors, spatial, geometry, effects, style, locals, previous>>

\* the grid loop has ended: the rest of analyzeSpatial
SpatialEnd ==
    /\ pc = "grid"
    /\ locals.x >= imageData.width
    /\ spatial' = analyzeSpatial(imageData, locals.columnScores)
    /\ locals' = NoLocals
    /\ pc' = "geometry"
    /\ UNCHANGED <<imageData, colors, geometry, effects, style, previous>>

\* analyzeGeometry up to the start of its corner loops
GeometryBegin ==
    /\ pc = "geometry"
    /\ locals' = [loop |-> "corners", edges |-> edgesOf(imageData), sy |-> 0, sx |-> 0,
                  sharpCorners |-> 0, roundedCorners |-> 0]
    /\ pc' = "corners"
    /\ UNCHANGED <<imageData, colors, spatial, geometry, effects, style, previous>>

\* one iteration of for (let sx = 0; sx < width; sx += Math.floor(width / sampleSize))
CornerStep ==
    /\ pc = "corners"
    /\ locals.sy < imageData.height
    /\ locals.sx < imageData.width
    /\ LET probe == cornerProbe(imageData, locals.edges, locals.sx, locals.sy)
       IN  locals' = [locals EXCEPT
                        !.sharpCorners = @ + (IF isSharpCorner(probe) THEN 1 ELSE 0),
                        !.roundedCorners = @ + (IF isRoundedCorner(probe) THEN 1 ELSE 0),
                        !.sx = @ + MathFloor(imageData.width, sampleSize)]
    /\ UNCHANGED <<imageData, pc, colors, spatial, geometry, effects, style, previous>>

\* the inner loop has ended: sy += Math.floor(height / sampleSize), sx = 0
CornerRowEnd ==
    /\ pc = "corners"
    /\ locals.sy < imageData.height
    /\ locals.sx >= imageData.width
    /\ locals' = [locals EXCEPT !.sy = @ + MathFloor(imageData.height, sampleSize),
                                !.sx = 0]
    /\ UNCHANGED <<imageData, pc, colors, spatial, geometry, effects, style, previous>>

\* the corner loops have ended: the rest of analyzeGeometry
GeometryEnd ==
    /\ pc = "corners"
    /\ locals.sy >= imageData.height
    /\ geometry' = analyzeGeometry(imageData, locals.edges, locals.sharpCorners,
                                   locals.roundedCorners)
    /\ locals' = NoLocals
    /\ pc' = "effects"
    /\ UNCHANGED <<imageData, colors, spatial, effects, style, previous>>

\* analyzeEffects up to the start of its sampling loop
EffectsBegin ==
    /\ pc = "effects"
    /\ locals' = [loop |-> "blur", s |-> 0, blurScore |-> 0,
                  grad |-> gradientPass(imageData),
                  before |-> effectsBeforeSampling(imageData, colors)]
    /\ pc' = "blur"
    /\ UNCHANGED <<imageData, colors, spatial, geometry, effects, style, previous>>

\* one iteration of for (let s = 0; s < blurSamples; s++), with the two
\* Math.random() draws u / RandomSteps and v / RandomSteps
BlurSample ==
    /\ pc = "blur"
    /\ locals.s < blurSamples
    /\ \E u \in 0..(RandomSteps - 1), v \in 0..(RandomSteps - 1) :
           LET x == MathFloor(u * (imageData.width - 10), RandomSteps) + 5
               y == MathFloor(v * (imageData.height - 10), RandomSteps) + 5
           IN  locals' = [locals EXCEPT
                            !.blurScore = @ + (IF isBlurred(imageData, x, y) THEN 1 ELSE 0),
                            !.s = @ + 1]
    /\ UNCHANGED <<imageData, pc, colors, spatial, geometry, effects, style, previous>>

\* the sampling loop has ended: the rest of analyzeEffects
EffectsEnd ==
    /\ pc = "blur"
    /\ locals.s >= blurSamples
    /\ effects' = analyzeEffects(imageData, locals.before, locals.blurScore)
    /\ locals' = NoLocals
    /\ pc' = "style"
    /\ UNCHANGED <<imageData, colors, spatial, geometry, style, previous>>

\* const styleAnalysis = analyzeStyle(...), and the result is returned
RunStyle ==
    /\ pc = "style"
    /\ style' = analyzeStyle(colors, spatial, geometry, effects)
    /\ pc' = "done"
    /\ UNCHANGED <<imageData, colors, spatial, geometry, effects, locals, previous>>

\* the caller keeps the result and runs the pipeline again on the same bitmap
Rerun ==
    /\ pc = "done"
    /\ previous = NoResult
    /\ previous' = [colors |-> colors, spatial |-> spatial, geometry |-> geometry,
                    effects |-> effects, style |-> style]
    /\ colors' = NoResult
    /\ spatial' = NoResult
    /\ geometry' = NoResult
    /\ effects' = NoResult
    /\ style' = NoResult
    /\ pc' = "colors"
    /\ UNCHANGED <<imageData, locals>>

\* one run of the pipeline
Analyze ==
    \/ RunColors
    \/ SpatialBegin
    \/ GridStep
    \/ GridOverflow
    \/ SpatialEnd
    \/ GeometryBegin
    \/ CornerStep
    \/ CornerRowEnd
    \/ GeometryEnd
    \/ EffectsBegin
    \/ BlurSample
    \/ EffectsEnd
    \/ RunStyle

Next ==
    \/ Analyze
    \/ Rerun

Spec == Init /\ [][Next]_vars

\* a single run in which a loop that can take its next iteration takes it
FairSpec ==
    /\ Init
    /\ [][Analyze]_vars
    /\ WF_vars(GridStep)
    /\ WF_vars(GridOverflow)
    /\ WF_vars(CornerStep)
    /\ WF_vars(CornerRowEnd)

-----------------------------------------------------------------------------
(* Properties of the pipeline *)

GridLoopEnded == pc = "grid" /\ locals.x >= imageData.width

CornerLoopsEnded == pc = "corners" /\ locals.sy >= imageData.height

\* C1: on every bitmap with width >= 1 and height >= 1 the analyzers run to
\* the end: the grid-detection column loop of analyzeSpatial, once entered,
\* reaches its end, and so do the corner-probe loops of analyzeGeometry.
C1_LoopsReachTheirEnd ==
    /\ (pc = "grid") ~> GridLoopEnded
    /\ (pc = "corners") ~> CornerLoopsEnded

\* the fields of an effects result other than glassmorphismScore and
\* hasGlassmorphism
EffectsWithoutGlass(e) ==
    [gradients |-> e.gradients, shadows |-> e.shadows, depth |-> e.depth,
     depthScore |-> e.depthScore, hasNoise |-> e.hasNoise, noiseLevel |-> e.noiseLevel]

\* C5: two runs on the same bitmap return the same colors, spatial, geometry,
\* effects and style, except possibly effects.glassmorphismScore and
\* effects.hasGlassmorphism.
C5_RunsAgreeExceptGlass ==
    (pc = "done" /\ previous # NoResult) =>
        /\ previous.colors = colors
        /\ previous.spatial = spatial
        /\ previous.geometry = geometry
        /\ EffectsWithoutGlass(previous.effects) = EffectsWithoutGlass(effects)
        /\ previous.style = style

-----------------------------------------------------------------------------
(* analyzeColors and analyzeSpatial applied to two-coloured bitmaps *)

\* the height of the bitmaps that have a top, a middle and a bottom band
SplitHeight == 6

SplitDirections == {"columns", "rows"}

\* a bitmap whose first half (of its columns, or of its rows) is painted p and
\* whose second half q
SplitBitmap(w, h, p, q, dir) ==
    [width |-> w, height |-> h,
     data |-> [i \in 1..(4 * w * h) |->
                 LET x == ((i - 1) \div 4) % w
                     y == ((i - 1) \div 4) \div w
                     first == IF dir = "columns" THEN 2 * x < w ELSE 2 * y < h
                 IN  (IF first THEN p ELSE q)[((i - 1) % 4) + 1]]]

SpatialInit ==
    /\ \E w \in Sides, h \in {SmallSide, SplitHeight}, p \in PixelSet, q \in PixelSet,
          dir \in SplitDirections :
           imageData = SplitBitmap(w, h, p, q, dir)
    /\ pc = "colors"
    /\ colors = NoResult
    /\ spatial = NoResult
    /\ geometry = NoResult
    /\ effects = NoResult
    /\ style = NoResult
    /\ locals = NoLocals
    /\ previous = NoResult

\* the run up to the return of analyzeSpatial
SpatialNext ==
    \/ RunColors
    \/ SpatialBegin
    \/ GridStep
    \/ GridOverflow
    \/ SpatialEnd

SpatialSpec == SpatialInit /\ [][SpatialNext]_vars

-----------------------------------------------------------------------------
(* Properties of analyzeSpatial *)

SpatialDone == spatial # NoResult

\* the five returned region weights
ReturnedWeights ==
    <<spatial.visualWeight.top, spatial.visualWeight.bottom, spatial.visualWeight.left,
      spatial.visualWeight.right, spatial.visualWeight.center>>

\* every pixel that lies in one of the five regions is pure white
RegionPixelsAllWhite ==
    \A x \in 0..(imageData.width - 1), y \in 0..(imageData.height - 1) :
        (\E k \in 1..5 : inRegion(RegionKeys[k], x, y, imageData.width, imageData.height))
            => LET i == ByteIndex(imageData.width, x, y)
               IN  /\ imageData.data[i + 1] = 255
                   /\ imageData.data[i + 2] = 255
                   /\ imageData.data[i + 3] = 255

\* C13: the five region weights returned by analyzeSpatial each lie in
\* [0, 100] and the largest of them equals 100.
C13_LargestWeightIs100 ==
    SpatialDone =>
        /\ \A k \in 1..5 : InRange0To100(ReturnedWeights[k])
        /\ \E k \in 1..5 : ReturnedWeights[k] = Num(100)

\* C13 as amended: the five region weights each lie in [0, 100]; the largest
\* equals 100, unless every pixel lying in a region is pure white, in which
\* case all five are 50.
C13_LargestIs100UnlessAllWhite ==
    SpatialDone =>
        /\ \A k \in 1..5 : InRange0To100(ReturnedWeights[k])
        /\ IF RegionPixelsAllWhite
           THEN \A k \in 1..5 : ReturnedWeights[k] = Num(50)
           ELSE \E k \in 1..5 : ReturnedWeights[k] = Num(100)

\* C13 witness: analyzeSpatial has returned for a bitmap with white and
\* non-white pixels; the largest weight is 100 and another lies strictly
\* between 0 and 100.
C13_Witness ==
    /\ SpatialDone
    /\ ~RegionPixelsAllWhite
    /\ \E k \in 1..5 : ReturnedWeights[k] = Num(100)
    /\ \E k \in 1..5 : RGt(ReturnedWeights[k], Num(0)) /\ RLt(ReturnedWeights[k], Num(100))
    /\ \E i \in 1..Len(imageData.data) : imageData.data[i] # 255

\* C17: balance is symmetric or centered only when both |left - right| and
\* |top - bottom| are below 15; asymmetric-left only if left - right > 20,
\* asymmetric-right only if left - right < -20, asymmetric-top only if
\* top - bottom > 20, asymmetric-bottom only if top - bottom < -20.
C17_BalanceLabels ==
    SpatialDone =>
        LET horizontalBalance == RSub(spatial.visualWeight.left, spatial.visualWeight.right)
            verticalBalance   == RSub(spatial.visualWeight.top, spatial.visualWeight.bottom)
        IN  /\ spatial.balance \in {"symmetric", "centered"} =>
                   /\ RLt(RAbs(horizontalBalance), Num(15))
                   /\ RLt(RAbs(verticalBalance), Num(15))
            /\ spatial.balance = "asymmetric-left" => RGt(horizontalBalance, Num(20))
            /\ spatial.balance = "asymmetric-right" => RLt(horizontalBalance, Num(-20))
            /\ spatial.balance = "asymmetric-top" => RGt(verticalBalance, Num(20))
            /\ spatial.balance = "asymmetric-bottom" => RLt(verticalBalance, Num(-20))

-----------------------------------------------------------------------------
(* analyzeImage from the loaded image to the bitmap handed to the analyzers *)

maxDimension == 800

\* source images have sides 1..MaxSourceSmall, sides around maxDimension, and
\* one side beyond MaxSourceFactor times maxDimension
MaxSourceSmall == 3

MaxSourceFactor == 3

SourceSides ==
    (1..MaxSourceSmall)
        \cup {maxDimension - 1 + k : k \in 0..MaxSourceSmall}
        \cup {MaxSourceFactor * maxDimension + 1}

\* the loaded image: only its size is followed here
ScaleInit ==
    /\ \E w \in SourceSides, h \in SourceSides :
           locals = [loop |-> "load", img |-> [width |-> w, height |-> h]]
    /\ pc = "load"
    /\ imageData = NoResult
    /\ colors = NoResult
    /\ spatial = NoResult
    /\ geometry = NoResult
    /\ effects = NoResult
    /\ style = NoResult
    /\ previous = NoResult

\* Math.floor(side * scale) with scale = maxDimension / Math.max(width, height)
scaledSide(side, width, height) == MathFloor(side * maxDimension, Max2(width, height))

\* the canvas is sized, the image drawn and ctx.getImageData(0, 0, width,
\* height) read; getImageData raises an error when a side is 0
Downscale ==
    /\ pc = "load"
    /\ LET img    == locals.img
           scale  == img.width > maxDimension \/ img.height > maxDimension
           width  == IF scale THEN scaledSide(img.width, img.width, img.height)
                     ELSE img.width
           height == IF scale THEN scaledSide(img.height, img.width, img.height)
                     ELSE img.height
       IN  /\ locals' = [locals EXCEPT !.loop = "canvas"] @@ [width |-> width, height |-> height]
           /\ pc' = IF width = 0 \/ height = 0 THEN "failed" ELSE "scaled"
    /\ UNCHANGED <<imageData, colors, spatial, geometry, effects, style, previous>>

ScaleNext == Downscale

ScaleSpec == ScaleInit /\ [][ScaleNext]_vars

\* C14: for every source image with width >= 1 and height >= 1 the bitmap
\* handed to the analyzers has max(width, height) <= 800, width >= 1 and
\* height >= 1.
C14_ScaledSidesValid ==
    locals.loop = "canvas" =>
        /\ Max2(locals.width, locals.height) <= 800
        /\ locals.width >= 1
        /\ locals.height >= 1

-----------------------------------------------------------------------------
(* The pipeline applied to solid and evenly graded bitmaps *)

OpaqueGrey == <<100, 100, 100, 255>>

\* the colours of the solid bitmaps
SolidColours == {OpaqueBlue, OpaqueRed, OpaqueWhite, OpaqueGrey}

\* each channel rises by SlopeUnit * a per column and SlopeUnit * b per row
SlopeUnit == 1

MaxSlope == 5

\* base colour p graded by a along x and by b along y (channels stop at 255)
RampBitmap(w, h, p, a, b) ==
    [width |-> w, height |-> h,
     data |-> [i \in 1..(4 * w * h) |->
                 LET x == ((i - 1) \div 4) % w
                     y == ((i - 1) \div 4) \div w
                     c == ((i - 1) % 4) + 1
                 IN  IF c = 4 THEN p[4]
                     ELSE Min2(255, p[c] + SlopeUnit * (a * x + b * y))]]

RampInit ==
    /\ \E w \in Sides, h \in Sides :
           \/ \E p \in SolidColours : imageData = RampBitmap(w, h, p, 0, 0)
           \/ \E a \in 0..MaxSlope : \E b \in {0, a, MaxSlope} :
                  imageData = RampBitmap(w, h, OpaqueGrey, a, b)
    /\ pc = "colors"
    /\ colors = NoResult
    /\ spatial = NoResult
    /\ geometry = NoResult
    /\ effects = NoResult
    /\ style = NoResult
    /\ locals = NoLocals
    /\ previous = NoResult

RampSpec == RampInit /\ [][Analyze]_vars

-----------------------------------------------------------------------------
(* Properties of the pipeline on solid and graded bitmaps *)

\* every pixel has the colour of the first and is fully opaque
IsSolidOpaque(img) ==
    \A i \in 1..Len(img.data) :
        /\ img.data[i] = img.data[((i - 1) % 4) + 1]
        /\ (i % 4 = 0 => img.data[i] = 255)

\* C15: for an opaque bitmap whose pixels all have the same colour,
\* paletteType is monochromatic, geometry.edgeDensity is 0,
\* effects.gradients.detected is false and effects.hasNoise is false.
C15_SolidHasNoStructure ==
    IsSolidOpaque(imageData) =>
        /\ colors # NoResult => colors.paletteType = "monochromatic"
        /\ geometry # NoResult => geometry.edgeDensity = Num(0)
        /\ effects # NoResult => ~effects.gradients.detected /\ ~effects.hasNoise

\* C15 witness: the five analyzers have returned for the solid 20 x 20 bitmap
\* of colour (51, 102, 153).
C15_Witness ==
    /\ pc = "done"
    /\ IsSolidOpaque(imageData)
    /\ <<imageData.data[1], imageData.data[2], imageData.data[3]>> = <<51, 102, 153>>
    /\ colors.paletteType = "monochromatic"
    /\ geometry.edgeDensity = Num(0)
    /\ ~effects.gradients.detected
    /\ ~effects.hasNoise

\* the corners <<sx, sy>> of the blocks the gradient pass visits
Blocks ==
    {b \in (0..(imageData.width - 11)) \X (0..(imageData.height - 11)) :
        b[1] % 10 = 0 /\ b[2] % 10 = 0}

\* hDiff of the block at b: the top-edge plus the bottom-edge colour distance,
\* in hundredths
BlockHDiff(b) ==
    colorDistance(imageData.data, ByteIndex(imageData.width, b[1], b[2]),
                  ByteIndex(imageData.width, b[1] + 10, b[2]))
        + colorDistance(imageData.data, ByteIndex(imageData.width, b[1], b[2] + 10),
                        ByteIndex(imageData.width, b[1] + 10, b[2] + 10))

\* vDiff of the block at b: the left-edge plus the right-edge colour distance
BlockVDiff(b) ==
    colorDistance(imageData.data, ByteIndex(imageData.width, b[1], b[2]),
                  ByteIndex(imageData.width, b[1], b[2] + 10))
        + colorDistance(imageData.data, ByteIndex(imageData.width, b[1] + 10, b[2]),
                        ByteIndex(imageData.width, b[1] + 10, b[2] + 10))

\* hDiff lies strictly between 20 and 150
HorizontalBlocks == {b \in Blocks : BlockHDiff(b) > 2000 /\ BlockHDiff(b) < 15000}

GradientPassDone == locals.loop = "blur"

HasDirection(directions, d) == \E k \in 1..Len(directions) : directions[k] = d

\* C19: every block whose hDiff lies strictly between 20 and 150 is counted
\* as a gradient region and causes 'horizontal' to be present in
\* gradients.directions.
C19_HorizontalCountedAndTagged ==
    GradientPassDone =>
        /\ locals.grad.gradientRegions >= Cardinality(HorizontalBlocks)
        /\ HorizontalBlocks # {} =>
               HasDirection(locals.before.gradients.directions, "horizontal")

\* C19 as amended: every block whose hDiff lies strictly between 20 and 150
\* is counted as a gradient region, and causes 'horizontal' to be present in
\* gradients.directions when its vDiff is below half its hDiff.
C19_HorizontalTaggedWhenDominant ==
    GradientPassDone =>
        /\ locals.grad.gradientRegions >= Cardinality(HorizontalBlocks)
        /\ (\E b \in HorizontalBlocks : 2 * BlockVDiff(b) < BlockHDiff(b)) =>
               HasDirection(locals.before.gradients.directions, "horizontal")

\* C19 witness: the pass has visited a block with hDiff between 100 and 150
\* and vDiff 0, and has counted it and tagged 'horizontal'.
C19_Witness ==
    /\ GradientPassDone
    /\ \E b \in HorizontalBlocks : BlockHDiff(b) > 10000 /\ BlockVDiff(b) = 0
    /\ locals.grad.gradientRegions >= 1
    /\ HasDirection(locals.before.gradients.directions, "horizontal")

-----------------------------------------------------------------------------
(* The handler of POST /api/analyze *)

NoImage == [present |-> FALSE, prefix |-> "", mediaType |-> "", encoding |-> "", data |-> ""]

\* the image field of the request body: absent or empty, or a string of the
\* form <prefix><mediaType>;<encoding>,<data>
Images ==
    {NoImage} \cup
    [present : {TRUE}, prefix : {"data:", "https:"},
     mediaType : {"image/png", "image/jpeg", ""},
     encoding : {"base64", "utf8"}, data : {"", "iVBORw0KGgo="}]

\* the request: a body that is not JSON, or a JSON body with an image field
Requests == {[json |-> FALSE, image |-> NoImage]} \cup [json : {TRUE}, image : Images]

\* the values of the environment variables GEMINI_API_KEY and
\* ANTHROPIC_API_KEY; the empty string stands for an unset variable as well
GeminiKeys == {"", "gemini-key"}

AnthropicKeys == {"", "anthropic-key"}

\* image.match(/^data:([^;]+);base64,(.+)$/)
matches(image) ==
    /\ image.prefix = "data:"
    /\ image.mediaType # ""
    /\ image.encoding = "base64"
    /\ image.data # ""

\* what a provider's HTTP API answers: a failure with or without an error
\* message, or a success whose text is missing, holds no braces, holds braces
\* that do not parse, or holds a JSON object
Replies ==
    [ok : {FALSE}, message : {"", "quota exceeded"}, text : {""}] \cup
    [ok : {TRUE}, message : {""}, text : {"", "prose", "{not json}", "{json}"}]

Threw(message) == [threw |-> TRUE, error |-> message]

Returned(name) == [threw |-> FALSE, designSystem |-> [producedBy |-> name]]

\* the common body of analyzeWithGemini and analyzeWithAnthropic
analyzeWith(name, keyName, apiKey, reply) ==
    IF apiKey = "" THEN Threw(<<keyName, "not configured">>)
    ELSE IF ~reply.ok
    THEN Threw(IF reply.message # "" THEN <<reply.message>> ELSE <<name, "API error">>)
    ELSE IF reply.text = "" THEN Threw(<<"No response from", name>>)
    ELSE IF reply.text = "prose" THEN Threw(<<"No JSON found in", name, "response">>)
    ELSE IF reply.text = "{not json}" THEN Threw(<<"SyntaxError">>)
    ELSE Returned(name)

analyzeWithGemini(apiKey, reply) == analyzeWith("Gemini", "GEMINI_API_KEY", apiKey, reply)

analyzeWithAnthropic(apiKey, reply) ==
    analyzeWith("Anthropic", "ANTHROPIC_API_KEY", apiKey, reply)

ErrorResponse(status, error) == [status |-> status, error |-> error]

SuccessResponse(designSystem, provider) ==
    [status |-> 200, designSystem |-> designSystem, provider |-> provider]

RouteInit ==
    /\ \E request \in Requests, geminiKey \in GeminiKeys, anthropicKey \in AnthropicKeys :
           locals = [loop |-> "route", request |-> request, geminiKey |-> geminiKey,
                     anthropicKey |-> anthropicKey, response |-> NoResult]
    /\ pc = "request"
    /\ imageData = NoResult
    /\ colors = NoResult
    /\ spatial = NoResult
    /\ geometry = NoResult
    /\ effects = NoResult
    /\ style = NoResult
    /\ previous = NoResult

Respond(response) ==
    /\ locals' = [locals EXCEPT !.response = response]
    /\ pc' = "responded"

\* POST up to its first call of a provider
POST ==
    /\ pc = "request"
    /\ IF ~locals.request.json THEN Respond(ErrorResponse(500, <<"SyntaxError">>))
       ELSE IF ~locals.request.image.present
       THEN Respond(ErrorResponse(400, <<"No image provided">>))
       ELSE IF ~matches(locals.request.image)
       THEN Respond(ErrorResponse(400, <<"Invalid image format">>))
       ELSE IF locals.geminiKey = "" /\ locals.anthropicKey = ""
       THEN Respond(ErrorResponse(500, <<"No API key configured">>))
       ELSE /\ pc' = IF locals.geminiKey # "" THEN "gemini" ELSE "anthropic"
            /\ UNCHANGED locals
    /\ UNCHANGED <<imageData, colors, spatial, geometry, effects, style, previous>>

\* the call of analyzeWithGemini settles
GeminiSettles ==
    /\ pc = "gemini"
    /\ \E reply \in Replies :
           LET result == analyzeWithGemini(locals.geminiKey, reply)
           IN  IF ~result.threw THEN Respond(SuccessResponse(result.designSystem, "gemini"))
               ELSE IF locals.anthropicKey # ""
               THEN pc' = "anthropic" /\ UNCHANGED locals
               ELSE Respond(ErrorResponse(500, result.error))
    /\ UNCHANGED <<imageData, colors, spatial, geometry, effects, style, previous>>

\* the call of analyzeWithAnthropic settles
AnthropicSettles ==
    /\ pc = "anthropic"
    /\ \E reply \in Replies :
           LET result == analyzeWithAnthropic(locals.anthropicKey, reply)
           IN  IF ~result.threw
               THEN Respond(SuccessResponse(result.designSystem, "anthropic"))
               ELSE Respond(ErrorResponse(500, result.error))
    /\ UNCHANGED <<imageData, colors, spatial, geometry, effects, style, previous>>

RouteNext == POST \/ GeminiSettles \/ AnthropicSettles

RouteSpec == RouteInit /\ [][RouteNext]_vars

-----------------------------------------------------------------------------
(* Properties of POST /api/analyze *)

Responded == pc = "responded"

\* C16: every successful response of POST /api/analyze carries a design system
\* produced by the Anthropic call, and is given only when ANTHROPIC_API_KEY is
\* set.
C16_SuccessIsAnthropic ==
    (Responded /\ locals.response.status = 200) =>
        /\ locals.response.provider = "anthropic"
        /\ locals.response.designSystem.producedBy = "Anthropic"
        /\ locals.anthropicKey # ""

-----------------------------------------------------------------------------
(* Properties of analyzeSpatial's focal points *)

\* the byte indices of the pixels of cell (gx, gy) of the 5 x 5 grid
CellPixels(gx, gy) ==
    {ByteIndex(imageData.width, x, y) :
        x \in MathFloor(gx * imageData.width, gridSize)
                  ..(MathFloor((gx + 1) * imageData.width, gridSize) - 1),
        y \in MathFloor(gy * imageData.height, gridSize)
                  ..(MathFloor((gy + 1) * imageData.height, gridSize) - 1)}

RECURSIVE RegionWeightSum(_)
RegionWeightSum(S) ==
    IF S = {} THEN 0
    ELSE LET i == CHOOSE i \in S : TRUE
         IN  visualWeightAt(imageData.data, i) + RegionWeightSum(S \ {i})

\* the average over a cell of the weight the region pass uses,
\* (255 - luminance) / 255 + saturation / 200
CellAverage(gx, gy) ==
    Rat(RegionWeightSum(CellPixels(gx, gy)), 255000 * Cardinality(CellPixels(gx, gy)))

\* the cells whose average region-pass weight exceeds 0.6
HeavyCells ==
    {c \in (0..(gridSize - 1)) \X (0..(gridSize - 1)) :
        CellPixels(c[1], c[2]) # {} /\ RGt(CellAverage(c[1], c[2]), Rat(6, 10))}

\* C21: the focal points are cells of the 5 x 5 grid whose average of the
\* region pass's weight (255 - luminance) / 255 + saturation / 200 exceeds
\* 0.6, each reported with that average as intensity; at most the 5 heaviest
\* are returned, in descending intensity.
C21_FocalPointsUseRegionWeight ==
    SpatialDone =>
        /\ Len(spatial.focalPoints) = Min2(5, Cardinality(HeavyCells))
        /\ \A k \in 1..Len(spatial.focalPoints) :
               \E c \in HeavyCells :
                   /\ spatial.focalPoints[k].x = Rat(2 * c[1] + 1, 2 * gridSize)
                   /\ spatial.focalPoints[k].y = Rat(2 * c[2] + 1, 2 * gridSize)
                   /\ spatial.focalPoints[k].intensity = CellAverage(c[1], c[2])
        /\ \A k \in 1..(Len(spatial.focalPoints) - 1) :
               RGe(spatial.focalPoints[k].intensity, spatial.focalPoints[k + 1].intensity)

-----------------------------------------------------------------------------
(* The page component (Home), the history panel and the history library *)

MAX_HISTORY == 20

\* the length saveToHistory trims to when its first write fails
TrimmedLength == 10

MaxAnalyses == 1

MaxRemovals == 1

None == "none"

demoDesignSystem == "demo"

\* design systems an API response can carry
ApiDesignSystems == {"dsA"}

\* the number of history entries localStorage has room for once a new entry
\* is among them: setItem of a list with the new entry throws when the list
\* is longer
Capacities == {2 * MAX_HISTORY, TrimmedLength, 0}

\* a list written by earlier sessions, newest first
StoredBefore(n) ==
    [k \in 1..n |-> [id |-> n - k + 1, designSystem |-> "dsOld", thumbnail |-> None,
                     createdAt |-> n - k + 1]]

InitialLengths == {0, MAX_HISTORY - 1, MAX_HISTORY}

\* .slice(0, MAX_HISTORY)
limitNothing(entries) == entries

limitHistory(entries) == Slice(entries, MAX_HISTORY)

\* localStorage.setItem of a list of entries throws
setItemThrows(entries, capacity) == Len(entries) > capacity

\* saveToHistory: the stored list afterwards, and whether the call threw
saveToHistory(history, capacity, entry) ==
    LET updated == limitHistory(<<entry>> \o history)
        trimmed == Slice(updated, TrimmedLength)
    IN  IF ~setItemThrows(updated, capacity) THEN [threw |-> FALSE, history |-> updated]
        ELSE IF ~setItemThrows(trimmed, capacity) THEN [threw |-> FALSE, history |-> trimmed]
        ELSE [threw |-> TRUE, history |-> history]

\* removeFromHistory: filter((entry) => entry.id !== id), then setItem of
\* the list, which is no longer than the stored one and fits
removeFromHistory(history, id) ==
    LET keeps(entry) == entry.id # id
    IN  SelectSeq(history, keeps)

NoReply == [type |-> "none", error |-> None, designSystem |-> None]

\* what a fetch of /api/analyze or /api/analyze-url settles with: a body with
\* an error, a body with a design system, or a rejection
ApiReplies ==
    {[type |-> "error", error |-> "api error", designSystem |-> None],
     [type |-> "rejected", error |-> None, designSystem |-> None]} \cup
    {[type |-> "ok", error |-> None, designSystem |-> ds] : ds \in ApiDesignSystems}

PageInit ==
    /\ \E n \in InitialLengths, capacity \in Capacities :
           locals = [loop |-> "page", isAnalyzing |-> FALSE, analysisMode |-> "image",
                     designSystem |-> None, imageAnalysis |-> None,
                     extractedData |-> None, error |-> None, uploadedImage |-> None,
                     historyOpen |-> FALSE, historyCount |-> n, analyzedUrl |-> None,
                     panelHistory |-> <<>>, stored |-> StoredBefore(n),
                     capacity |-> capacity, requests |-> {}, started |-> 0,
                     removed |-> 0, nextId |-> n + 1, now |-> n]
    /\ pc = "page"
    /\ imageData = NoResult
    /\ colors = NoResult
    /\ spatial = NoResult
    /\ geometry = NoResult
    /\ effects = NoResult
    /\ style = NoResult
    /\ previous = NoResult

PageUnchanged == UNCHANGED <<imageData, pc, colors, spatial, geometry, effects, style, previous>>

\* the requests in flight, each marked as belonging to an earlier user action
Superseded(requests) == {[r EXCEPT !.superseded = TRUE] : r \in requests}

NewRequest(id, kind, phase, source) ==
    [id |-> id, kind |-> kind, phase |-> phase, source |-> source,
     clientAnalysis |-> None, reply |-> NoReply, superseded |-> FALSE]

\* handleImageSelected up to its await of analyzeImage; the dropzone is shown
\* while no design system is displayed and is disabled while isAnalyzing
handleImageSelected ==
    /\ locals.designSystem = None
    /\ ~locals.isAnalyzing
    /\ locals.started < MaxAnalyses
    /\ locals' = [locals EXCEPT
           !.uploadedImage = "preview", !.analyzedUrl = None, !.error = None,
           !.isAnalyzing = TRUE, !.analysisMode = "image", !.designSystem = None,
           !.imageAnalysis = None, !.extractedData = None,
           !.started = @ + 1,
           !.requests = Superseded(@) \cup
                            {NewRequest(locals.started + 1, "image", "client", "preview")}]
    /\ PageUnchanged

\* analyzeImage settles (a rejection leaves clientAnalysis null) and the
\* fetch of /api/analyze is sent
ClientAnalysisSettles ==
    /\ \E r \in locals.requests, clientAnalysis \in {None, "analysis"} :
           /\ r.phase = "client"
           /\ locals' = [locals EXCEPT !.requests = (@ \ {r}) \cup
                  {[r EXCEPT !.phase = "fetch", !.clientAnalysis = clientAnalysis]}]
    /\ PageUnchanged

\* a fetch settles
FetchSettles ==
    /\ \E r \in locals.requests, reply \in ApiReplies :
           /\ r.phase = "fetch"
           /\ locals' = [locals EXCEPT !.requests = (@ \ {r}) \cup
                  {[r EXCEPT !.phase = "replied", !.reply = reply]}]
    /\ PageUnchanged

\* the entry saveToHistory builds; Date advances by 0 or 1 between two saves
NewEntry(designSystem, thumbnail, createdAt) ==
    [id |-> locals.nextId, designSystem |-> designSystem, thumbnail |-> thumbnail,
     createdAt |-> createdAt]

\* the rest of handleImageSelected, from the response of the fetch on
ImageResponse ==
    /\ \E r \in locals.requests, createdAt \in {locals.now, locals.now + 1} :
           /\ r.kind = "image"
           /\ r.phase = "replied"
           /\ LET saved == saveToHistory(locals.stored, locals.capacity,
                               NewEntry(r.reply.designSystem, r.source, createdAt))
                  settled == [locals EXCEPT !.requests = @ \ {r}, !.isAnalyzing = FALSE,
                                            !.imageAnalysis = r.clientAnalysis]
              IN  IF r.reply.type = "error"
                  THEN locals' = [settled EXCEPT !.error = r.reply.error,
                                                 !.designSystem = demoDesignSystem]
                  ELSE IF r.reply.type = "ok" /\ ~saved.threw
                  THEN locals' = [settled EXCEPT !.designSystem = r.reply.designSystem,
                                                 !.stored = saved.history,
                                                 !.historyCount = @ + 1,
                                                 !.nextId = @ + 1, !.now = createdAt]
                  ELSE locals' = [settled EXCEPT !.error = "Connection error",
                                                 !.designSystem = demoDesignSystem]
    /\ PageUnchanged

\* handleUrlSubmit up to its fetch of /api/analyze-url
handleUrlSubmit ==
    /\ locals.designSystem = None
    /\ ~locals.isAnalyzing
    /\ locals.started < MaxAnalyses
    /\ locals' = [locals EXCEPT
           !.analyzedUrl = "https://example.com", !.uploadedImage = None, !.error = None,
           !.isAnalyzing = TRUE, !.analysisMode = "url", !.designSystem = None,
           !.imageAnalysis = None, !.extractedData = None,
           !.started = @ + 1,
           !.requests = Superseded(@) \cup
               {NewRequest(locals.started + 1, "url", "fetch", "https://example.com")}]
    /\ PageUnchanged

\* the rest of handleUrlSubmit, from the response of the fetch on
UrlResponse ==
    /\ \E r \in locals.requests, createdAt \in {locals.now, locals.now + 1} :
           /\ r.kind = "url"
           /\ r.phase = "replied"
           /\ LET saved == saveToHistory(locals.stored, locals.capacity,
                               NewEntry(r.reply.designSystem, "screenshot", createdAt))
                  settled == [locals EXCEPT !.requests = @ \ {r}, !.isAnalyzing = FALSE]
                  shown == [settled EXCEPT !.designSystem = r.reply.designSystem,
                                           !.uploadedImage = "screenshot",
                                           !.extractedData = "extracted"]
              IN  IF r.reply.type = "error"
                  THEN locals' = [settled EXCEPT !.error = r.reply.error]
                  ELSE IF r.reply.type = "ok" /\ ~saved.threw
                  THEN locals' = [shown EXCEPT !.stored = saved.history,
                                               !.historyCount = @ + 1,
                                               !.nextId = @ + 1, !.now = createdAt]
                  ELSE IF r.reply.type = "ok"
                  THEN locals' = [shown EXCEPT !.error = "Failed to analyze URL"]
                  ELSE locals' = [settled EXCEPT !.error = "Failed to analyze URL"]
    /\ PageUnchanged

\* the demo link is shown while no design system is displayed
handleTryDemo ==
    /\ locals.designSystem = None
    /\ locals' = [locals EXCEPT !.designSystem = demoDesignSystem, !.uploadedImage = None,
                                !.imageAnalysis = None, !.error = None,
                                !.requests = Superseded(@)]
    /\ PageUnchanged

\* the New analysis button is shown while a design system is displayed
handleReset ==
    /\ locals.designSystem # None
    /\ locals' = [locals EXCEPT !.designSystem = None, !.uploadedImage = None,
                                !.imageAnalysis = None, !.extractedData = None,
                                !.error = None, !.analyzedUrl = None,
                                !.requests = Superseded(@)]
    /\ PageUnchanged

\* an edit in the results tabs
handleDesignSystemChange ==
    /\ locals.designSystem \notin {None, "edited"}
    /\ locals' = [locals EXCEPT !.designSystem = "edited"]
    /\ PageUnchanged

\* the header's History button, and the panel's effect on opening
OpenHistory ==
    /\ ~locals.historyOpen
    /\ locals' = [locals EXCEPT !.historyOpen = TRUE, !.panelHistory = locals.stored]
    /\ PageUnchanged

CloseHistory ==
    /\ locals.historyOpen
    /\ locals' = [locals EXCEPT !.historyOpen = FALSE]
    /\ PageUnchanged

\* the positions of the panel's list the user clicks
ClickedPositions(history) == {k \in {1, Len(history)} : k >= 1 /\ k <= Len(history)}

\* a click on an entry of the panel: onSelect (handleHistorySelect), onClose
handleHistorySelect ==
    /\ locals.historyOpen
    /\ \E k \in ClickedPositions(locals.panelHistory) :
           locals' = [locals EXCEPT !.designSystem = locals.panelHistory[k].designSystem,
                                    !.uploadedImage = locals.panelHistory[k].thumbnail,
                                    !.imageAnalysis = None, !.error = None,
                                    !.historyOpen = FALSE,
                                    !.requests = Superseded(@)]
    /\ PageUnchanged

\* the panel's handleRemove
handleRemove ==
    /\ locals.historyOpen
    /\ locals.removed < MaxRemovals
    /\ \E k \in ClickedPositions(locals.panelHistory) :
           LET updated == removeFromHistory(locals.stored, locals.panelHistory[k].id)
           IN  locals' = [locals EXCEPT !.removed = @ + 1, !.stored = updated,
                                        !.panelHistory = updated]
    /\ PageUnchanged

\* the panel's handleClearAll, confirmed: clearHistory, setHistory([])
handleClearAll ==
    /\ locals.historyOpen
    /\ locals.stored # <<>> \/ locals.panelHistory # <<>>
    /\ locals' = [locals EXCEPT !.stored = <<>>, !.panelHistory = <<>>]
    /\ PageUnchanged

PageNext ==
    \/ handleImageSelected
    \/ ClientAnalysisSettles
    \/ FetchSettles
    \/ ImageResponse
    \/ handleUrlSubmit
    \/ UrlResponse
    \/ handleTryDemo
    \/ handleReset
    \/ handleDesignSystemChange
    \/ OpenHistory
    \/ CloseHistory
    \/ handleHistorySelect
    \/ handleRemove
    \/ handleClearAll

PageSpec == PageInit /\ [][PageNext]_vars

-----------------------------------------------------------------------------
(* Properties of the page component and of the history *)

\* request r is in flight before the step and no longer after it
Settles(r) == \A q \in locals'.requests : q.id # r.id

\* C22: the response of a request that no longer belongs to the user's most
\* recent action (a reset, the demo data, a history entry or a newer analysis
\* came after it) never overwrites designSystem, imageAnalysis or error.
C22_LateResponseIgnored ==
    [][\A r \in locals.requests :
           (r.superseded /\ r.phase = "replied" /\ Settles(r)) =>
               /\ locals'.designSystem = locals.designSystem
               /\ locals'.imageAnalysis = locals.imageAnalysis
               /\ locals'.error = locals.error]_vars

\* C23: the historyCount shown in the header equals the number of entries
\* stored in the history, getHistory().length.
C23_CountMatchesHistory == locals.historyCount = Len(locals.stored)

\* C26: when the API has returned a design system and both writes of
\* saveToHistory throw, handleImageSelected displays the returned design
\* system, not the demo one, and reports no connection error.
C26_ShownDespiteStorageFailure ==
    [][\A r \in locals.requests :
           (/\ r.kind = "image"
            /\ r.phase = "replied"
            /\ r.reply.type = "ok"
            /\ Settles(r)
            /\ saveToHistory(locals.stored, locals.capacity,
                             NewEntry(r.reply.designSystem, r.source, locals.now)).threw) =>
               /\ locals'.designSystem = r.reply.designSystem
               /\ locals'.error # "Connection error"]_vars

\* at most MAX_HISTORY entries, newest first
HistoryBoundedAndOrdered ==
    /\ Len(locals.stored) <= MAX_HISTORY
    /\ \A i \in 1..(Len(locals.stored) - 1) :
           locals.stored[i].createdAt >= locals.stored[i + 1].createdAt

\* a step in which saveToHistory returned puts the new entry first; a step in
\* which removeFromHistory ran removes the entries of one id and nothing else;
\* the first entry stays first as long as it is stored and nothing is saved
HistoryStep ==
    /\ locals'.historyCount = locals.historyCount + 1 =>
           /\ locals'.stored # <<>>
           /\ locals'.stored[1].id = locals.nextId
           /\ locals'.stored[1].createdAt >= locals.now
    /\ locals'.removed = locals.removed + 1 =>
           \E id \in {locals.panelHistory[k].id : k \in 1..Len(locals.panelHistory)} :
               /\ \A k \in 1..Len(locals'.stored) : locals'.stored[k].id # id
               /\ Len(locals'.stored) =
                      Cardinality({k \in 1..Len(locals.stored) : locals.stored[k].id # id})
               /\ \A k \in 1..Len(locals'.stored) :
                      \E m \in k..Len(locals.stored) : locals'.stored[k] = locals.stored[m]
               /\ \A k \in 1..(Len(locals'.stored) - 1) :
                      \E m, n \in 1..Len(locals.stored) :
                          /\ m < n
                          /\ locals'.stored[k] = locals.stored[m]
                          /\ locals'.stored[k + 1] = locals.stored[n]
    /\ (/\ locals'.historyCount = locals.historyCount
        /\ locals.stored # <<>>
        /\ \E k \in 1..Len(locals'.stored) : locals'.stored[k].id = locals.stored[1].id) =>
           locals'.stored[1] = locals.stored[1]

\* C25: the stored history holds at most 20 entries, newest first; the entry
\* saved last, if not removed since, is the first element; removeFromHistory
\* removes exactly the entries with its id and leaves the others and their
\* order unchanged.
C25_HistoryBoundedNewestFirst == []HistoryBoundedAndOrdered /\ [][HistoryStep]_vars

\* C25 witness: a save into a full history of 20 entries dropped the oldest
\* and put the new entry first, and the last entry was removed afterwards.
C25_Witness ==
    /\ locals.loop = "page"
    /\ locals.removed = 1
    /\ Len(locals.stored) = MAX_HISTORY - 1
    /\ locals.stored[1].id = MAX_HISTORY + 1
    /\ locals.stored[2].id = MAX_HISTORY
    /\ locals.stored[MAX_HISTORY - 1].id = 3

-----------------------------------------------------------------------------
(* analyzeStyle applied in turn to every combination of a family of inputs *)

SweepTemperatures == <<"cool", "warm", "neutral">>

SweepBalances == <<"symmetric", "asymmetric-left", "centered">>

SweepSaturations == <<"vibrant", "muted">>

SweepContrasts == <<"high", "low">>

SweepLightness == << <<Num(0), Num(0), Num(100)>>, <<Num(100), Num(0), Num(0)>> >>

SweepPaletteTypes == <<"monochromatic", "complementary">>

SweepWhitespace == <<Num(100), Num(0)>>

SweepGeometries ==
    << [edgeDensity |-> Num(0), cornerStyle |-> "sharp"],
       [edgeDensity |-> Num(100), cornerStyle |-> "rounded"] >>

SweepEffects ==
    << [hasGlassmorphism |-> FALSE, gradients |-> [detected |-> FALSE, count |-> 0],
        shadows |-> [score |-> Num(0), intensity |-> shadowIntensityOf(Num(0))],
        depth |-> "flat"],
       [hasGlassmorphism |-> TRUE, gradients |-> [detected |-> TRUE, count |-> 3],
        shadows |-> [score |-> Num(100), intensity |-> shadowIntensityOf(Num(100))],
        depth |-> "neumorphic"] >>

\* the number of combinations: 3 * 3 * 2 * 2 * 2 * 2 * 2 * 2 * 2
SweepSize ==
    Len(SweepTemperatures) * Len(SweepBalances) * Len(SweepSaturations)
        * Len(SweepContrasts) * Len(SweepLightness) * Len(SweepPaletteTypes)
        * Len(SweepWhitespace) * Len(SweepGeometries) * Len(SweepEffects)

\* the element of s selected by the digit of i whose place value is stride
Pick(s, i, stride) == s[((i \div stride) % Len(s)) + 1]

\* combination number i (from 0) of the family
SweepColors(i) ==
    [temperature |-> Pick(SweepTemperatures, i, 1),
     saturation |-> Pick(SweepSaturations, i, 9),
     contrast |-> Pick(SweepContrasts, i, 18),
     paletteType |-> Pick(SweepPaletteTypes, i, 72),
     lightnessDistribution |-> [dark |-> Pick(SweepLightness, i, 36)[1],
                                mid |-> Pick(SweepLightness, i, 36)[2],
                                light |-> Pick(SweepLightness, i, 36)[3]]]

SweepSpatial(i) ==
    [whitespacePercentage |-> Pick(SweepWhitespace, i, 144),
     density |-> densityOf(Pick(SweepWhitespace, i, 144)),
     balance |-> Pick(SweepBalances, i, 3)]

SweepGeometry(i) == Pick(SweepGeometries, i, 288)

SweepEffect(i) == Pick(SweepEffects, i, 576)

SweepInit ==
    /\ imageData = NoResult
    /\ pc = "sweep"
    /\ colors = NoResult
    /\ spatial = NoResult
    /\ geometry = NoResult
    /\ effects = NoResult
    /\ style = NoResult
    /\ locals = [loop |-> "sweep", next |-> 0, returned |-> {}]
    /\ previous = NoResult

\* analyzeStyle on the next combination; its industry is recorded
SweepStep ==
    /\ pc = "sweep"
    /\ locals.next < SweepSize
    /\ colors' = SweepColors(locals.next)
    /\ spatial' = SweepSpatial(locals.next)
    /\ geometry' = SweepGeometry(locals.next)
    /\ effects' = SweepEffect(locals.next)
    /\ style' = analyzeStyle(colors', spatial', geometry', effects')
    /\ locals' = [locals EXCEPT !.next = @ + 1, !.returned = @ \cup {style'.industry}]
    /\ UNCHANGED <<imageData, pc, previous>>

SweepEnd ==
    /\ pc = "sweep"
    /\ locals.next = SweepSize
    /\ pc' = "swept"
    /\ UNCHANGED <<imageData, colors, spatial, geometry, effects, style, locals, previous>>

SweepNext == SweepStep \/ SweepEnd

SweepSpec == SweepInit /\ [][SweepNext]_vars

\* C24: each of the seven industry labels is returned by analyzeStyle for at
\* least one combination of upstream values within their ranges: once every
\* combination of the family has been analysed, all seven have been returned.
C24_EveryIndustryReturned ==
    pc = "swept" =>
        locals.returned =
            {"tech", "finance", "creative", "healthcare", "ecommerce", "media", "general"}

-----------------------------------------------------------------------------
(* Properties of the gradient pass's counters and of the gradient fields *)

\* C27: the vertical test of a block depends only on the block's own hDiff
\* and vDiff, so that each block adds at most 1 to gradientRegions and
\* gradientRegions <= totalRegions.
C27_AtMostOnePerBlock ==
    GradientPassDone =>
        /\ locals.grad.totalRegions = Cardinality(Blocks)
        /\ locals.grad.gradientRegions <= locals.grad.totalRegions

\* C28: in the returned EffectsAnalysis, gradients.detected false comes with
\* empty directions, count 0 and empty types, and detected true with
\* non-empty directions.
C28_GradientFieldsConsistent ==
    effects # NoResult =>
        /\ ~effects.gradients.detected =>
               /\ effects.gradients.directions = <<>>
               /\ effects.gradients.count = 0
               /\ effects.gradients.types = <<>>
        /\ effects.gradients.detected => effects.gradients.directions # <<>>

====
